---- MODULE Spec2Model ----
(***************************************************************************)
(* Youtube-Shorts-Cutter: the peak detector (findPeakSegments), the        *)
(* boundary optimizer (optimizeSegments / applyOptimizations), and the job *)
(* orchestrator with its progress fan-out (processJob, POST /api/cut,      *)
(* GET /api/jobs/:id/progress).                                            *)
(*                                                                         *)
(* Units: times are integer milliseconds (a value in seconds of the source *)
(* is its millisecond count), intensities are integer thousandths.         *)
(***************************************************************************)
EXTENDS Integers, Sequences, FiniteSets, TLC

\* ───────────────────────── bounds of the model ─────────────────────────

\* number of heatmap buckets an input heatmap may hold
NumSlots == 5

\* width of one heatmap bucket
SlotMs == 15 * 1000

\* "no point in this bucket" / "no value" (null)
Null == 0 - 1

\* intensities a bucket may carry (0.2, 0.6, 0.9)
Intensities == {200, 600, 900}

\* video durations (seconds * 1000)
VideoDurations == {70 * 1000, 77 * 1000, 100 * 1000}

\* option values of a request (settings of POST /api/analyze)
TopNs == {2, 3}
MinDurations == {15 * 1000, 34 * 1000}
MaxDurations == {60 * 1000}
MinGaps == {0, 30 * 1000}

\* ───────────────────────── program constants ─────────────────────────

MinMarkers == 5
MergeGapMs == 3000
RelaxedGapFloorMs == 10000
SearchWindowMs == 5000
SearchAfterMs == 2000
HookWindowMs == 3000
EndSlackMs == 3000
DefaultEnergy == 500
HookMinIntensity == 500
MaxHooks == 5
DefaultTargetMinMs == 15000
DefaultTargetMaxMs == 60000

\* ───────────────────────── generic helpers ─────────────────────────

Max(a, b) == IF a >= b THEN a ELSE b
Min(a, b) == IF a <= b THEN a ELSE b

\* the sum of a sequence of numbers, by halves
RECURSIVE SumSeq(_)
SumSeq(s) ==
  IF s = <<>> THEN 0
  ELSE IF Len(s) = 1 THEN s[1]
  ELSE SumSeq(SubSeq(s, 1, Len(s) \div 2)) + SumSeq(SubSeq(s, Len(s) \div 2 + 1, Len(s)))

\* Array.prototype.sort((a, b) => key(a) - key(b)) on a sequence of records
\* [key, val]: ascending by key, stable (equal keys keep their order)
\* the element at place i goes to the place after the elements of smaller key
\* and the earlier elements of equal key
SortKeyed(s) ==
  LET place == [i \in 1..Len(s) |->
                  1 + Cardinality({j \in 1..Len(s) :
                                     \/ s[j].key < s[i].key
                                     \/ s[j].key = s[i].key /\ j < i})]
  IN [p \in 1..Len(s) |-> s[CHOOSE i \in 1..Len(s) : place[i] = p]]

\* s sorted ascending by keys[i], stable
StableSort(s, keys) ==
  LET sorted == SortKeyed([i \in 1..Len(s) |-> [key |-> keys[i], val |-> s[i]]])
  IN [i \in 1..Len(s) |-> sorted[i].val]

\* round1(n) = Math.round(n * 10) / 10 on a millisecond count:
\* the nearest multiple of 100 ms, halves rounded up
round1(ms) == ((ms + 50) \div 100) * 100

\* round3 of the quotient sum/len of thousandths: Math.round(x * 1000) / 1000
round3Avg(sum, len) == (2 * sum + len) \div (2 * len)

\* ───────────────────── findPeakSegments: threshold ─────────────────────

\* An IEEE double threshold is kept as [m |-> thousandths, e |-> sign of
\* (double - m/1000)]: 0.4 - 0.1 is 0.30000000000000004, not 0.3.
Thr(m, e) == [m |-> m, e |-> e]

\* threshold -= 0.1 in double arithmetic, tabulated for the 0.1 grid
Sub01(t) ==
  CASE t.m = 1000 /\ t.e = 0 -> Thr(900, 0)
    [] t.m = 900 /\ t.e = 0 -> Thr(800, 0)
    [] t.m = 800 /\ t.e = 0 -> Thr(700, 1)
    [] t.m = 700 /\ t.e = 0 -> Thr(600, 0)
    [] t.m = 600 /\ t.e = 0 -> Thr(500, 0)
    [] t.m = 500 /\ t.e = 0 -> Thr(400, 0)
    [] t.m = 400 /\ t.e = 0 -> Thr(300, 1)
    [] t.m = 300 /\ t.e = 0 -> Thr(200, 0 - 1)
    [] OTHER -> Thr(t.m - 100, t.e)

\* m.intensity >= threshold, the intensity being the double nearest i/1000
GeThreshold(i, t) == i > t.m \/ (i = t.m /\ t.e <= 0)

\* threshold > 0.2
AboveFloor(t) == t.m > 200 \/ (t.m = 200 /\ t.e > 0)

hotMarkersAt(heatmap, t) == SelectSeq(heatmap, LAMBDA m : GeThreshold(m.intensity, t))

RECURSIVE AdaptiveThreshold(_, _)
AdaptiveThreshold(heatmap, t) ==
  IF Len(hotMarkersAt(heatmap, t)) < MinMarkers /\ AboveFloor(t)
  THEN AdaptiveThreshold(heatmap, Sub01(t))
  ELSE t

\* ───────────────────── findPeakSegments: zones ─────────────────────

NewZone(m) ==
  [startMs |-> m.startMs, endMs |-> m.endMs, intensities |-> <<m.intensity>>,
   peakIntensity |-> m.intensity, peakTimeMs |-> m.startMs]

\* the extension that moves the peak to a later marker of equal intensity
ExtendZoneLatestPeak(z, m) ==
  [startMs |-> z.startMs,
   endMs |-> Max(z.endMs, m.endMs),
   intensities |-> Append(z.intensities, m.intensity),
   peakIntensity |-> IF m.intensity >= z.peakIntensity THEN m.intensity ELSE z.peakIntensity,
   peakTimeMs |-> IF m.intensity >= z.peakIntensity THEN m.startMs ELSE z.peakTimeMs]

ExtendZone(z, m) ==
  [startMs |-> z.startMs,
   endMs |-> Max(z.endMs, m.endMs),
   intensities |-> Append(z.intensities, m.intensity),
   peakIntensity |-> IF m.intensity > z.peakIntensity THEN m.intensity ELSE z.peakIntensity,
   peakTimeMs |-> IF m.intensity > z.peakIntensity THEN m.startMs ELSE z.peakTimeMs]

\* the loop over hotMarkers[1..]: zones pushed so far, and the current zone
RECURSIVE MergeLoop(_, _, _)
MergeLoop(rest, zones, current) ==
  IF rest = <<>> THEN Append(zones, current)
  ELSE LET m == Head(rest) IN
       IF m.startMs - current.endMs <= MergeGapMs
       THEN MergeLoop(Tail(rest), zones, ExtendZone(current, m))
       ELSE MergeLoop(Tail(rest), Append(zones, current), NewZone(m))

MergeZones(hot) == MergeLoop(Tail(hot), <<>>, NewZone(Head(hot)))

\* ───────────────────── findPeakSegments: candidates ─────────────────────

\* the expansion that leaves a clipped range as it is
ExpandShortClipped(peakTimeS, videoDurationS, minDurationS) ==
  LET halfNeeded == minDurationS \div 2
  IN [startS |-> Max(0, peakTimeS - halfNeeded),
      endS |-> Min(videoDurationS, peakTimeS + halfNeeded)]

\* expand a short zone around its peak
ExpandShort(peakTimeS, videoDurationS, minDurationS) ==
  LET halfNeeded == minDurationS \div 2
      s0 == Max(0, peakTimeS - halfNeeded)
      e0 == Min(videoDurationS, peakTimeS + halfNeeded)
  IN IF e0 - s0 < minDurationS
     THEN IF s0 = 0
          THEN [startS |-> s0, endS |-> Min(videoDurationS, minDurationS)]
          ELSE [startS |-> Max(0, e0 - minDurationS), endS |-> e0]
     ELSE [startS |-> s0, endS |-> e0]

\* trim a long zone around its peak
TrimLong(peakTimeS, videoDurationS, maxDurationS) ==
  LET halfMax == maxDurationS \div 2
      s0 == Max(0, peakTimeS - halfMax)
      e0 == Min(videoDurationS, peakTimeS + halfMax)
  IN IF e0 - s0 < maxDurationS /\ s0 = 0
     THEN [startS |-> s0, endS |-> Min(videoDurationS, maxDurationS)]
     ELSE IF e0 - s0 < maxDurationS
     THEN [startS |-> Max(0, e0 - maxDurationS), endS |-> e0]
     ELSE [startS |-> s0, endS |-> e0]

SizeCandidate(zone, videoDurationS, minDurationS, maxDurationS) ==
  LET raw == [startS |-> zone.startMs, endS |-> zone.endMs]
      a == IF raw.endS - raw.startS < minDurationS
           THEN ExpandShort(zone.peakTimeMs, videoDurationS, minDurationS)
           ELSE raw
      b == IF a.endS - a.startS > maxDurationS
           THEN TrimLong(zone.peakTimeMs, videoDurationS, maxDurationS)
           ELSE a
  IN [startS |-> round1(b.startS),
      endS |-> round1(b.endS),
      durationS |-> round1(b.endS - b.startS),
      avgIntensity |-> round3Avg(SumSeq(zone.intensities), Len(zone.intensities)),
      peakIntensity |-> zone.peakIntensity,
      peakTimeS |-> zone.peakTimeMs]

\* score * 10000 * maxDurationS, an integer:
\* avgIntensity * 1.0 + peakIntensity * 0.3 + min(durationS / maxDurationS, 1) * 0.1
Score(c, maxDurationS) ==
  10 * c.avgIntensity * (maxDurationS \div 100)
  + 3 * c.peakIntensity * (maxDurationS \div 100)
  + 1000 * (Min(c.durationS, maxDurationS) \div 100)

CandidatesInZoneOrder(zones, videoDurationS, minDurationS, maxDurationS) ==
  LET sized == [i \in 1..Len(zones) |->
                  SizeCandidate(zones[i], videoDurationS, minDurationS, maxDurationS)]
  IN [i \in 1..Len(zones) |-> sized[i] @@ [score |-> Score(sized[i], maxDurationS)]]

Candidates(zones, videoDurationS, minDurationS, maxDurationS) ==
  LET sized == [i \in 1..Len(zones) |->
                  SizeCandidate(zones[i], videoDurationS, minDurationS, maxDurationS)]
      scored == [i \in 1..Len(zones) |->
                  sized[i] @@ [score |-> Score(sized[i], maxDurationS)]]
  IN StableSort(scored, [i \in 1..Len(zones) |-> 0 - scored[i].score])

\* ───────────────────── findPeakSegments: selection ─────────────────────

\* the gap of two ranges; negative when they overlap
GapBetween(c, x) == Max(c.startS - x.endS, x.startS - c.endS)

\* selected.some(existing => gap < limit); selected holds indices of candidates
HasConflict(cands, selected, i, limit) ==
  \E k \in 1..Len(selected) : GapBetween(cands[i], cands[selected[k]]) < limit

IsSelected(selected, i) == \E k \in 1..Len(selected) : selected[k] = i

\* one pass "for (const candidate of candidates)" from index i on
RECURSIVE SelectPass(_, _, _, _, _, _)
SelectPass(cands, selected, i, limit, topN, skipSelected) ==
  IF i > Len(cands) \/ Len(selected) >= topN THEN selected
  ELSE IF skipSelected /\ IsSelected(selected, i)
       THEN SelectPass(cands, selected, i + 1, limit, topN, skipSelected)
  ELSE IF ~HasConflict(cands, selected, i, limit)
       THEN SelectPass(cands, Append(selected, i), i + 1, limit, topN, skipSelected)
  ELSE SelectPass(cands, selected, i + 1, limit, topN, skipSelected)

StrictPassOverlapOnly(cands, minGapS, topN) == SelectPass(cands, <<>>, 1, 0, topN, FALSE)
StrictPass(cands, minGapS, topN) == SelectPass(cands, <<>>, 1, minGapS, topN, FALSE)

\* Math.max(minGapS / 2, 10); minGapS is an even number of milliseconds
RelaxedGapDropped(minGapS) == 0
RelaxedGap(minGapS) == Max(minGapS \div 2, RelaxedGapFloorMs)

RelaxationRuns(cands, strict, topN) == Len(strict) < topN /\ Len(strict) < Len(cands)

RelaxationPassFromScratch(cands, strict, minGapS, topN) ==
  IF RelaxationRuns(cands, strict, topN)
  THEN SelectPass(cands, <<>>, 1, RelaxedGap(minGapS), topN, TRUE)
  ELSE strict

RelaxationPass(cands, strict, minGapS, topN) ==
  IF RelaxationRuns(cands, strict, topN)
  THEN SelectPass(cands, strict, 1, RelaxedGap(minGapS), topN, TRUE)
  ELSE strict

\* selected.sort((a, b) => a.startS - b.startS)
SortSelectedUnsorted(chosen) == chosen
SortSelected(chosen) == StableSort(chosen, [k \in 1..Len(chosen) |-> chosen[k].startS])

ToSegment(c) ==
  [startS |-> c.startS, endS |-> c.endS, durationS |-> c.durationS,
   avgIntensity |-> c.avgIntensity, peakIntensity |-> c.peakIntensity]

\* findPeakSegments with everything the later steps and the claims read:
\* strict and selected are the selected array after the strict pass and after
\* the relaxation pass, as indices into the sorted candidates
findPeakSegments(heatmap, videoDurationS, o) ==
  IF heatmap = <<>>
  THEN [segments |-> <<>>, candidates |-> <<>>, strict |-> <<>>, selected |-> <<>>,
        strictCount |-> 0, relaxed |-> FALSE]
  ELSE
  LET t == AdaptiveThreshold(heatmap, Thr(o.intensityThreshold, 0))
      markers == hotMarkersAt(heatmap, t)
      hot == StableSort(markers, [i \in 1..Len(markers) |-> markers[i].startMs])
  IN IF hot = <<>>
     THEN [segments |-> <<>>, candidates |-> <<>>, strict |-> <<>>, selected |-> <<>>,
        strictCount |-> 0, relaxed |-> FALSE]
     ELSE
     LET cands == Candidates(MergeZones(hot), videoDurationS, o.minDurationS, o.maxDurationS)
         strict == StrictPass(cands, o.minGapS, o.topN)
         final == RelaxationPass(cands, strict, o.minGapS, o.topN)
         chosen == [k \in 1..Len(final) |-> cands[final[k]]]
         sorted == SortSelected(chosen)
     IN [segments |-> [k \in 1..Len(sorted) |-> ToSegment(sorted[k])],
         candidates |-> cands,
         strict |-> strict,
         selected |-> final,
         strictCount |-> Len(strict),
         relaxed |-> RelaxationRuns(cands, strict, o.topN)]

\* ───────────────────── optimizeSegments: helpers ─────────────────────

\* a quotient num/den of thousandths, den > 0 (an average kept exact)
Frac(n, d) == [num |-> n, den |-> d]
FracGt(a, b) == a.num * b.den > b.num * a.den

\* mean intensity of the points that start in [startS, endS); 0.5 when none
getEnergyAt(heatmap, startS, endS) ==
  LET points == SelectSeq(heatmap, LAMBDA p : p.startMs >= startS /\ p.startMs < endS)
  IN IF points = <<>> THEN Frac(DefaultEnergy, 1)
     ELSE Frac(SumSeq([i \in 1..Len(points) |-> points[i].intensity]), Len(points))

\* candidates.sort((a, b) => b.energy - a.energy), stable
RECURSIVE InsertHook(_, _)
InsertHook(x, s) ==
  IF s = <<>> THEN <<x>>
  ELSE IF FracGt(x.energy, Head(s).energy) THEN <<x>> \o s
  ELSE <<Head(s)>> \o InsertHook(x, Tail(s))

RECURSIVE SortHooks(_)
SortHooks(s) ==
  IF s = <<>> THEN <<>>
  ELSE InsertHook(s[Len(s)], SortHooks(SubSeq(s, 1, Len(s) - 1)))

findHookCandidates(heatmap, searchMinS, searchMaxS) ==
  LET inWindow == SelectSeq(heatmap, LAMBDA p :
                    /\ p.startMs >= searchMinS
                    /\ p.startMs <= searchMaxS
                    /\ p.intensity > HookMinIntensity)
      candidates == [i \in 1..Len(inWindow) |->
                      LET p == inWindow[i]
                          nextEnergy == getEnergyAt(heatmap, p.startMs, p.startMs + HookWindowMs)
                      IN [timeS |-> p.startMs,
                          energy |-> Frac(p.intensity * nextEnergy.den + nextEnergy.num,
                                          2 * nextEnergy.den)]]
      sorted == SortHooks(candidates)
  IN SubSeq(sorted, 1, Min(Len(sorted), MaxHooks))

\* first point in [searchMinS, searchMaxS] whose intensity is under half the
\* previous point's, the previous being above 0.4; Null when there is none
RECURSIVE EnergyDropLoop(_, _, _, _)
EnergyDropLoop(rest, prevEnergy, searchMinS, searchMaxS) ==
  IF rest = <<>> THEN Null
  ELSE LET p == Head(rest) IN
       IF p.startMs < searchMinS
       THEN EnergyDropLoop(Tail(rest), p.intensity, searchMinS, searchMaxS)
       ELSE IF p.startMs > searchMaxS THEN Null
       ELSE IF prevEnergy > 400 /\ 2 * p.intensity < prevEnergy THEN p.startMs
       ELSE EnergyDropLoop(Tail(rest), p.intensity, searchMinS, searchMaxS)

findEnergyDrop(heatmap, searchMinS, searchMaxS) ==
  EnergyDropLoop(heatmap, 1000, searchMinS, searchMaxS)

\* ───────────────────── optimizeSegments ─────────────────────

\* Option 1: snap to the end of a silence inside the start window
RECURSIVE SilenceStartLoop(_, _, _, _, _)
SilenceStartLoop(rest, best, heatmap, startSearchMin, startSearchMax) ==
  IF rest = <<>> THEN best
  ELSE LET s == Head(rest)
           hookEnergy == getEnergyAt(heatmap, s.endS, s.endS + HookWindowMs)
           score == Frac(hookEnergy.num * 100 + 20000 * hookEnergy.den, hookEnergy.den)
           next == IF /\ s.endS >= startSearchMin
                      /\ s.endS <= startSearchMax
                      /\ FracGt(score, best.score)
                   THEN [start |-> s.endS, score |-> score, boundaryType |-> "sentence_start"]
                   ELSE best
       IN SilenceStartLoop(Tail(rest), next, heatmap, startSearchMin, startSearchMax)

\* Option 2: a high-energy point inside the start window
RECURSIVE HookStartLoop(_, _)
HookStartLoop(rest, best) ==
  IF rest = <<>> THEN best
  ELSE LET hook == Head(rest)
           score == Frac(hook.energy.num * 100 + 10000 * hook.energy.den, hook.energy.den)
           next == IF FracGt(score, best.score)
                   THEN [start |-> hook.timeS, score |-> score, boundaryType |-> "energy_peak"]
                   ELSE best
       IN HookStartLoop(Tail(rest), next)

BestStart(seg, heatmap, silences) ==
  LET startSearchMin == Max(0, seg.startS - SearchWindowMs)
      startSearchMax == seg.startS + SearchAfterMs
      initial == [start |-> seg.startS, score |-> Frac(0, 1), boundaryType |-> "original"]
      afterSilence == SilenceStartLoop(silences, initial, heatmap, startSearchMin, startSearchMax)
  IN HookStartLoop(findHookCandidates(heatmap, startSearchMin, startSearchMax), afterSilence)

\* Option 1 of the end: the first silence that starts in the end window and
\* keeps the duration inside [targetMinS, targetMaxS]; else seg.endS
RECURSIVE SilenceEndLoop(_, _, _, _, _, _, _)
SilenceEndLoop(rest, segEnd, bestStart, endSearchMin, endSearchMax, targetMinS, targetMaxS) ==
  IF rest = <<>> THEN segEnd
  ELSE LET s == Head(rest) IN
       IF /\ s.startS >= endSearchMin
          /\ s.startS <= endSearchMax
          /\ s.startS - bestStart >= targetMinS
          /\ s.startS - bestStart <= targetMaxS
       THEN s.startS
       ELSE SilenceEndLoop(Tail(rest), segEnd, bestStart, endSearchMin, endSearchMax,
                           targetMinS, targetMaxS)

BestEnd(seg, bestStart, heatmap, silences, videoDurationS, targetMinS, targetMaxS) ==
  LET endSearchMin == Max(bestStart + targetMinS, seg.endS - EndSlackMs)
      endSearchMax == Min(bestStart + targetMaxS, videoDurationS)
      bySilence == SilenceEndLoop(silences, seg.endS, bestStart, endSearchMin, endSearchMax,
                                  targetMinS, targetMaxS)
      dropPoint == findEnergyDrop(heatmap, endSearchMin, endSearchMax)
      byDrop == IF /\ bySilence = seg.endS
                   /\ dropPoint # Null /\ dropPoint # 0
                   /\ dropPoint - bestStart >= targetMinS
                THEN dropPoint
                ELSE bySilence
      duration == byDrop - bestStart
      raised == IF duration < targetMinS
                THEN Min(bestStart + targetMinS, videoDurationS)
                ELSE byDrop
  IN IF duration > targetMaxS THEN bestStart + targetMaxS ELSE raised

OptimizeOne(seg, heatmap, silences, videoDurationS, targetMinS, targetMaxS) ==
  LET best == BestStart(seg, heatmap, silences)
      bestEnd == BestEnd(seg, best.start, heatmap, silences, videoDurationS,
                         targetMinS, targetMaxS)
  IN [original |-> seg,
      optimizedStartS |-> round1(best.start),
      optimizedEndS |-> round1(bestEnd),
      hookShiftS |-> round1(best.start - seg.startS),
      boundaryType |-> best.boundaryType]

optimizeSegments(segments, heatmap, silences, videoDurationS, targetMinS, targetMaxS) ==
  [i \in 1..Len(segments) |->
     OptimizeOne(segments[i], heatmap, silences, videoDurationS, targetMinS, targetMaxS)]

applyOptimizations(optimized) ==
  [i \in 1..Len(optimized) |->
     [optimized[i].original EXCEPT
        !.startS = optimized[i].optimizedStartS,
        !.endS = optimized[i].optimizedEndS,
        !.durationS = round1(optimized[i].optimizedEndS - optimized[i].optimizedStartS)]]

\* settings?.minDurationS || 15
OrDefault(x, d) == IF x = 0 THEN d ELSE x

\* ───────────────────── POST /api/analyze: state ─────────────────────

VARIABLES
  heatmap,         \* finalHeatmap of the request
  videoDurationS,  \* video.durationS
  settings,        \* the request's settings
  phase,           \* "request", "peaks" (after findPeakSegments), "optimized"
  detection,       \* what findPeakSegments computed (candidates, passes)
  optimized,       \* the OptimizedSegment list
  segments         \* the handler's `segments` variable

analyzeVars == <<heatmap, videoDurationS, settings, phase, detection, optimized, segments>>

\* ───────────────────── POST /api/cut, processJob, GET /api/jobs/:id/progress ─────────────────────

MaxClips == 2
MaxListeners == 2

Listeners == 1..MaxListeners
CropModes == {"center", "smart_reframe"}
CaptionPresets == {"off", "bold"}
TranslateTos == {"", "es"}
TranslateModes == {"", "both"}
SubtitleCounts == {0, 1}

VARIABLES
  cutRequest,      \* body of POST /api/cut: number of segments and the options
  pc,              \* where processJob stands
  clipIndex,       \* the loop variable i of processJob
  outputFiles,     \* outputFiles of processJob (clip numbers)
  outputExists,    \* whether the file at outputPath of the current clip exists
  fullVideoCache,  \* whether the module's fullVideoCache is set
  subtitleCache,   \* whether the module's subtitleCache is set
  tempDir,         \* the files in TEMP_DIR
  tempFiles,       \* tempFiles of processJob
  filePath,        \* filePath of downloadSegment
  subsLength,      \* subs.length of the current clip
  failedStage,     \* the stage whose failure was raised last in this iteration
  progress,        \* job.progress
  terminalEvents,  \* how many 'done' or 'error' events onProgress was called with
  listeners,       \* job.listeners, in insertion order
  streams          \* per client: its connection, the currentClip it got last, and
                   \* how many events it was not sent while connected

jobVars == <<cutRequest, pc, clipIndex, outputFiles, outputExists, fullVideoCache,
             subtitleCache, tempDir, tempFiles, filePath, subsLength, failedStage, progress, terminalEvents, listeners, streams>>

\* ───────────────────── scoreSegments (virality score engine) ─────────────────────

VARIABLES
  scoreSegmentsIn, \* the segments argument of scoreSegments
  scoreHeatmap,    \* its heatmap argument
  scoreDurationS,  \* its videoDurationS argument
  viralityScores   \* what the calls made so far returned, one entry per call

scoreVars == <<scoreSegmentsIn, scoreHeatmap, scoreDurationS, viralityScores>>

\* no scoring request
ScoreIdle ==
  /\ scoreSegmentsIn = <<>>
  /\ scoreHeatmap = <<>>
  /\ scoreDurationS = 0
  /\ viralityScores = <<>>

\* ───────────────────── parseTimeInput (manual time edit) ─────────────────────

VARIABLES
  timeInput,       \* the text of the edit field, a sequence of characters
  parsedTime       \* <<>> before the call, then <<what parseTimeInput returned>>

parseVars == <<timeInput, parsedTime>>

\* the edit field is not in use
ParseIdle ==
  /\ timeInput = <<>>
  /\ parsedTime = <<>>

\* ───────────────────── optimizeSegments with silence regions ─────────────────────

VARIABLES
  boundarySegments,  \* the segments argument of optimizeSegments
  boundaryHeatmap,   \* its heatmap argument
  boundarySilences,  \* context.silenceRegions
  boundaryOptimized  \* <<>> before the call, then <<what optimizeSegments returned>>

boundaryVars == <<boundarySegments, boundaryHeatmap, boundarySilences, boundaryOptimized>>

\* no boundary analysis
BoundaryIdle ==
  /\ boundarySegments = <<>>
  /\ boundaryHeatmap = <<>>
  /\ boundarySilences = <<>>
  /\ boundaryOptimized = <<>>

\* ───────────────────── POST /api/batch: state ─────────────────────

VARIABLES
  batchStatus,     \* batch.status
  results,         \* batch.results: status, files and error of each valid URL
  urlIndex,        \* i of the loop over validUrls, from 0
  batchPc,         \* where the loop is suspended
  cutJobs          \* the progress of the cut job of each URL (jobs.get(jobId).progress)

batchVars == <<batchStatus, results, urlIndex, batchPc, cutJobs>>

\* no batch
BatchIdle ==
  /\ batchStatus = "none"
  /\ results = <<>>
  /\ urlIndex = 0
  /\ batchPc = "none"
  /\ cutJobs = <<>>

\* ───────────────────── getSubtitles over the clips of a job: state ─────────────────────

VARIABLES
  captionClips,     \* how many clips of the job need subtitles
  captionClip,      \* the clips whose getSubtitles call has returned
  captionPc,        \* where getSubtitles is suspended
  cachedEntries,    \* subtitleCache: null, or the clips its entries have a slice for
  downloadAttempts, \* calls of downloadYouTubeSubtitlesFull made by the job
  subtitleSources   \* where the subtitles of each clip came from

captionVars ==
  <<captionClips, captionClip, captionPc, cachedEntries, downloadAttempts, subtitleSources>>

\* subtitleCache = null
NoSubtitleCache == [cached |-> FALSE, clips |-> {}]

\* no job that needs subtitles
CaptionIdle ==
  /\ captionClips = 0
  /\ captionClip = 0
  /\ captionPc = "none"
  /\ cachedEntries = NoSubtitleCache
  /\ downloadAttempts = 0
  /\ subtitleSources = <<>>

\* ───────────────────── two jobs and the full-video fallback: state ─────────────────────

VARIABLES
  sharedFullVideoCache, \* the module's fullVideoCache: NoVideo, or the job whose
                        \* URL the file full_<id>.mp4 it names was downloaded for
  fullVideos,           \* the full_<id>.mp4 files of TEMP_DIR, by the job of their URL
  jobPcs,               \* where processJob of each job is suspended
  jobClips,             \* i of each job's loop, and its segments.length
  jobSources,           \* the file the current clip of each job is cut from
  jobTempFiles,         \* the full-video files in each job's tempFiles
  cutSources            \* per job, the files its clips were cut from

concurrentVars ==
  <<sharedFullVideoCache, fullVideos, jobPcs, jobClips, jobSources, jobTempFiles, cutSources>>

\* no concurrent cut requests
ConcurrentIdle ==
  /\ sharedFullVideoCache = 0
  /\ fullVideos = {}
  /\ jobPcs = <<>>
  /\ jobClips = <<>>
  /\ jobSources = <<>>
  /\ jobTempFiles = <<>>
  /\ cutSources = <<>>

\* ───────────────────── the time range read from a fetched clip: state ─────────────────────

VARIABLES
  clipStartS,      \* seg.startS of the clip
  clipCropMode,    \* cropMode of the job
  fetched,         \* "none", or how downloadSegment got the file: "partial", "full"
  offsetS,         \* the offsetS downloadSegment returned
  analysisStartS,  \* the startS analyzeReframe was called with, Null when not called
  seekTime         \* the seek time cutClip was called with, Null before

seekVars == <<clipStartS, clipCropMode, fetched, offsetS, analysisStartS, seekTime>>

\* no clip
SeekIdle ==
  /\ clipStartS = 0
  /\ clipCropMode = "none"
  /\ fetched = "none"
  /\ offsetS = 0
  /\ analysisStartS = 0
  /\ seekTime = 0

otherVars == <<boundaryVars, batchVars, captionVars, concurrentVars, seekVars>>

OtherIdle == BoundaryIdle /\ BatchIdle /\ CaptionIdle /\ ConcurrentIdle /\ SeekIdle

pureVars == <<scoreVars, parseVars, otherVars>>

vars == <<analyzeVars, jobVars, pureVars>>

CutRequests ==
  [totalClips : 1..MaxClips, cropMode : CropModes, captionPreset : CaptionPresets,
   translateTo : TranslateTos, translateMode : TranslateModes]

CutProgress(status, currentClip, files) ==
  [status |-> status, currentClip |-> currentClip, files |-> files]

\* a client that has not connected, and one whose connection rejects writes
NoStream == [state |-> "idle", currentClip |-> 0, missed |-> 0]
Broken == [state |-> "broken", currentClip |-> 0, missed |-> 0]

\* files of TEMP_DIR: segment_<index>_<id>.<ext>, full_<id>.mp4 and
\* captions_<index>.ass; job tells the job that wrote the file
SegmentFile(index, job) == [name |-> "segment", index |-> index, job |-> job]
FullFile == [name |-> "full", index |-> 0, job |-> "this"]
CaptionsFile(index) == [name |-> "captions", index |-> index, job |-> "this"]
NoFile == [name |-> "none", index |-> 0, job |-> "this"]

\* fs.readdirSync(TEMP_DIR).filter(f => f.startsWith(`segment_${index}_`) ...)
SegmentFilesOf(dir, index) == {f \in dir : f.name = "segment" /\ f.index = index}

\* the job as POST /api/cut stores it, before processJob has run
JobCreated ==
  /\ pc = "start"
  /\ clipIndex = 0
  /\ outputFiles = <<>>
  /\ outputExists = FALSE
  /\ tempFiles = {}
  /\ filePath = NoFile
  /\ subsLength = 0
  /\ failedStage = "none"
  /\ progress = CutProgress("downloading", 0, <<>>)
  /\ terminalEvents = 0
  /\ listeners = <<>>
  /\ streams = [l \in Listeners |-> NoStream]

NoRequest ==
  [totalClips |-> 0, cropMode |-> "center", captionPreset |-> "off",
   translateTo |-> "", translateMode |-> ""]

\* no job in the store, the module's caches as they are at load
JobIdle ==
  /\ cutRequest = NoRequest
  /\ JobCreated
  /\ fullVideoCache = FALSE
  /\ subtitleCache = FALSE
  /\ tempDir = {}

NoSettings ==
  [topN |-> 0, minDurationS |-> 0, maxDurationS |-> 0, minGapS |-> 0,
   intensityThreshold |-> 0]

Point(k, i) == [startMs |-> (k - 1) * SlotMs, endMs |-> k * SlotMs, intensity |-> i]

\* the heatmap with bucket k present iff f[k] # Null, in time order
HeatmapOf(f) ==
  LET all == [k \in 1..NumSlots |-> Point(k, f[k])]
  IN SelectSeq(all, LAMBDA p : p.intensity # Null)

Settings ==
  [topN : TopNs, minDurationS : MinDurations, maxDurationS : MaxDurations,
   minGapS : MinGaps, intensityThreshold : {600}]

NoDetection == [segments |-> <<>>, candidates |-> <<>>, strict |-> <<>>, selected |-> <<>>,
        strictCount |-> 0, relaxed |-> FALSE]

\* no analyze request
AnalyzeIdle ==
  /\ heatmap = <<>>
  /\ videoDurationS = 0
  /\ settings = NoSettings
  /\ phase = "none"
  /\ detection = NoDetection
  /\ optimized = <<>>
  /\ segments = <<>>

\* the options findPeakSegments takes when the request gives none
DefaultOptions ==
  [topN |-> 5, minDurationS |-> 15 * 1000, maxDurationS |-> 60 * 1000,
   minGapS |-> 30 * 1000, intensityThreshold |-> 600]

\* a ten-minute video whose heatmap has buckets of one size
LongVideoMs == 600 * 1000
BucketSizes == {5 * 1000, 10 * 1000}

\* the k-th bucket
Bucket(k, size, intensity) ==
  [startMs |-> (k - 1) * size, endMs |-> k * size, intensity |-> intensity]

\* four isolated bumps of ten seconds over a background of 0.2
Bumps ==
  <<[startMs |-> 100 * 1000, endMs |-> 110 * 1000, intensity |-> 900],
    [startMs |-> 250 * 1000, endMs |-> 260 * 1000, intensity |-> 950],
    [startMs |-> 410 * 1000, endMs |-> 420 * 1000, intensity |-> 920],
    [startMs |-> 520 * 1000, endMs |-> 530 * 1000, intensity |-> 880]>>

BumpAt(ms) ==
  IF \E b \in 1..Len(Bumps) : Bumps[b].startMs <= ms /\ ms < Bumps[b].endMs
  THEN Bumps[CHOOSE b \in 1..Len(Bumps) : Bumps[b].startMs <= ms /\ ms < Bumps[b].endMs].intensity
  ELSE 200

WellSpacedPeaks(size) ==
  [k \in 1..(LongVideoMs \div size) |-> Bucket(k, size, BumpAt((k - 1) * size))]

\* every bucket at 0.55
FlatHeatmap(size) ==
  [k \in 1..(LongVideoMs \div size) |-> Bucket(k, size, 550)]

\* two short peaks starting at 100 s and 101 s, and a third one that starts
\* gap ms after the second ends (none when gap is Null); the third is listed first
PeakGaps == {Null, MergeGapMs, MergeGapMs + 1}
ClosePeaks(gap) ==
  LET pair == <<[startMs |-> 100 * 1000, endMs |-> 100 * 1000 + 500, intensity |-> 900],
                [startMs |-> 101 * 1000, endMs |-> 101 * 1000 + 500, intensity |-> 900]>>
      third == [startMs |-> 101 * 1000 + 500 + gap, endMs |-> 102 * 1000 + gap,
                intensity |-> 950]
  IN IF gap = Null THEN pair ELSE <<third>> \o pair

AnalyzeInit ==
  /\ \/ /\ \E f \in [1..NumSlots -> Intensities \cup {Null}] : heatmap = HeatmapOf(f)
        /\ videoDurationS \in VideoDurations
        /\ settings \in Settings
     \/ /\ \/ \E size \in BucketSizes : heatmap \in {WellSpacedPeaks(size), FlatHeatmap(size)}
           \/ \E gap \in PeakGaps : heatmap = ClosePeaks(gap)
        /\ videoDurationS = LongVideoMs
        /\ settings = DefaultOptions
  /\ phase = "request"
  /\ detection = NoDetection
  /\ optimized = <<>>
  /\ segments = <<>>
  /\ JobIdle
  /\ ScoreIdle
  /\ ParseIdle
  /\ OtherIdle

\* let segments = findPeakSegments(finalHeatmap, video.durationS, {...})
FindPeaks ==
  /\ phase = "request"
  /\ detection' = findPeakSegments(heatmap, videoDurationS, settings)
  /\ segments' = detection'.segments
  /\ phase' = "peaks"
  /\ UNCHANGED <<heatmap, videoDurationS, settings, optimized, jobVars, pureVars>>

\* optimized = optimizeSegments(...); segments = applyOptimizations(optimized)
\* (silenceRegions is [] in the handler)
OptimizeBoundaries ==
  /\ phase = "peaks"
  /\ optimized' = optimizeSegments(segments, heatmap, <<>>, videoDurationS,
                                   OrDefault(settings.minDurationS, DefaultTargetMinMs),
                                   OrDefault(settings.maxDurationS, DefaultTargetMaxMs))
  /\ segments' = applyOptimizations(optimized')
  /\ phase' = "optimized"
  /\ UNCHANGED <<heatmap, videoDurationS, settings, detection, jobVars, pureVars>>

AnalyzeNext == FindPeaks \/ OptimizeBoundaries

SpecAnalyze == AnalyzeInit /\ [][AnalyzeNext]_vars

\* ───────────────────── the progress callback and the listeners ─────────────────────

IsTerminal(status) == status \in {"done", "error"}

InSeq(s, x) == \E n \in 1..Len(s) : s[n] = x

\* the listeners the callback has written to when the write to the k-th one
\* throws (k = 0: no write throws)
Reached(k) == IF k = 0 THEN listeners ELSE SubSeq(listeners, 1, k - 1)

\* the callback given to processJob: job.progress = progress, then write to
\* each listener in turn and end it on a terminal event
Notify(ev, k) ==
  /\ progress' = ev
  /\ terminalEvents' = terminalEvents + (IF IsTerminal(ev.status) THEN 1 ELSE 0)
  /\ streams' = [l \in Listeners |->
       IF streams[l].state = "open" /\ InSeq(Reached(k), l)
       THEN [state |-> IF IsTerminal(ev.status) THEN "ended" ELSE "open",
             currentClip |-> ev.currentClip, missed |-> streams[l].missed]
       ELSE IF k # 0 /\ listeners[k] = l
            THEN Broken
            ELSE IF streams[l].state = "open"
                 THEN [streams[l] EXCEPT !.missed = @ + 1]
                 ELSE streams[l]]
  /\ UNCHANGED <<listeners, analyzeVars, pureVars>>

\* onProgress(ev) at a place whose exceptions are caught by `handler`
Announce(ev, next, handler) ==
  \E k \in 0..Len(listeners) :
    /\ Notify(ev, k)
    /\ pc' = IF k = 0 THEN next ELSE handler
    /\ failedStage' = IF k = 0 THEN failedStage ELSE "send"

Silent == UNCHANGED <<progress, terminalEvents, listeners, streams, analyzeVars, pureVars>>

Throw(stage, handler) ==
  /\ pc' = handler
  /\ failedStage' = stage

SameRequest ==
  UNCHANGED <<cutRequest, clipIndex, outputFiles, outputExists, fullVideoCache, subtitleCache, subsLength>>

SameClip == SameRequest /\ UNCHANGED <<tempDir, tempFiles, filePath>>

\* processJob is suspended at an await, or has returned
AwaitPcs ==
  {"await_partial", "await_resolution", "await_audio", "await_full", "await_reframe",
   "await_cut", "await_subs", "await_translate", "await_burn", "await_dub",
   "finished", "rejected"}

\* GET /api/jobs/:id/progress; a new connection takes the lowest free name
Attach(l) ==
  /\ pc \in AwaitPcs
  /\ streams[l].state = "idle"
  /\ \A m \in 1..(l - 1) : streams[m].state # "idle"
  /\ IF IsTerminal(progress.status)
     THEN /\ streams' = [streams EXCEPT ![l] =
                 [state |-> "ended", currentClip |-> progress.currentClip,
                  missed |-> 0]]
          /\ UNCHANGED listeners
     ELSE /\ streams' = [streams EXCEPT ![l] =
                 [state |-> "open", currentClip |-> progress.currentClip,
                  missed |-> 0]]
          /\ listeners' = Append(listeners, l)
  /\ UNCHANGED <<pc, failedStage, progress, terminalEvents, analyzeVars, pureVars>>
  /\ SameClip

\* req.on('close', ...): the connection of a listener in the set has closed
Close(l) ==
  /\ pc \in AwaitPcs
  /\ InSeq(listeners, l)
  /\ listeners' = SelectSeq(listeners, LAMBDA x : x # l)
  /\ streams' = [streams EXCEPT ![l] =
        IF streams[l].state \in {"open", "broken"}
        THEN NoStream
        ELSE streams[l]]
  /\ UNCHANGED <<pc, failedStage, progress, terminalEvents, analyzeVars, pureVars>>
  /\ SameClip

\* ───────────────────── processJob ─────────────────────

totalClips == cutRequest.totalClips
currentClip == clipIndex + 1

needsSubs == cutRequest.captionPreset # "off" \/ cutRequest.translateMode # ""
target == cutRequest.translateTo # ""
wantsTranslation == target /\ subsLength > 0 /\ cutRequest.translateMode # ""
wantsBurn == cutRequest.captionPreset # "off" /\ subsLength > 0
wantsDub == target /\ subsLength > 0 /\ cutRequest.translateMode \in {"dub", "both"}

Downloading == CutProgress("downloading", currentClip, <<>>)
Captioning == CutProgress("captioning", currentClip, <<>>)

\* fullVideoCache = null; clearSubtitleCache()
processJobStart ==
  /\ pc = "start"
  /\ pc' = "loop"
  /\ fullVideoCache' = FALSE
  /\ subtitleCache' = FALSE
  /\ Silent
  /\ UNCHANGED <<cutRequest, clipIndex, outputFiles, outputExists, subsLength, failedStage, tempDir, tempFiles, filePath>>

\* Step 1: onProgress 'downloading', then downloadSegment is called
ClipBegin ==
  /\ pc = "loop"
  /\ clipIndex < totalClips
  /\ Announce(Downloading, "segment", "catch")
  /\ SameClip

\* downloadSegment up to its first await
downloadSegment ==
  /\ pc = "segment"
  /\ Announce(Downloading, "await_partial", "catch")
  /\ SameClip

\* yt-dlp has written the segment file; filePath is files[0] of the files of
\* TEMP_DIR whose name starts with segment_<index>_
PartialDownloaded ==
  /\ pc = "await_partial"
  /\ pc' = "await_resolution"
  /\ tempDir' = tempDir \cup {SegmentFile(clipIndex, "this")}
  /\ filePath' \in SegmentFilesOf(tempDir', clipIndex)
  /\ Silent
  /\ UNCHANGED <<failedStage, tempFiles>>
  /\ SameRequest

\* yt-dlp does not know --download-sections
PartialUnsupported ==
  /\ pc = "await_partial"
  /\ Announce(Downloading, "fallback", "catch")
  /\ SameClip

\* yt-dlp failed otherwise, or left no file
PartialFailed ==
  /\ pc = "await_partial"
  /\ Throw("S1", "catch")
  /\ Silent
  /\ SameClip

\* getVideoResolution has answered
SegmentProbed ==
  /\ pc = "await_resolution"
  /\ Announce(Downloading, "await_audio", "catch")
  /\ SameClip

\* downloadSegment returns filePath; tempFiles.push(segmentPath)
AudioFound ==
  /\ pc = "await_audio"
  /\ pc' = "fetched"
  /\ tempFiles' = tempFiles \cup {filePath}
  /\ filePath' = NoFile
  /\ Silent
  /\ UNCHANGED <<failedStage, tempDir>>
  /\ SameRequest

\* fs.unlinkSync(filePath), then downloadFullFallback
AudioMissing ==
  /\ pc = "await_audio"
  /\ pc' = "fallback"
  /\ tempDir' = tempDir \ {filePath}
  /\ filePath' = NoFile
  /\ Silent
  /\ UNCHANGED <<failedStage, tempFiles>>
  /\ SameRequest

\* downloadFullFallback: the full video is cached
FullVideoCached ==
  /\ pc = "fallback"
  /\ fullVideoCache
  /\ pc' = "fetched"
  /\ tempFiles' = tempFiles \cup {FullFile}
  /\ Silent
  /\ UNCHANGED <<failedStage, tempDir, filePath>>
  /\ SameRequest

\* downloadFullFallback up to its await
downloadFullFallback ==
  /\ pc = "fallback"
  /\ ~fullVideoCache
  /\ Announce(Downloading, "await_full", "catch")
  /\ SameClip

FullDownloaded ==
  /\ pc = "await_full"
  /\ pc' = "fetched"
  /\ fullVideoCache' = TRUE
  /\ tempDir' = tempDir \cup {FullFile}
  /\ tempFiles' = tempFiles \cup {FullFile}
  /\ Silent
  /\ UNCHANGED <<cutRequest, clipIndex, outputFiles, outputExists, subtitleCache, subsLength,
                 failedStage, filePath>>

FullFailed ==
  /\ pc = "await_full"
  /\ Throw("S1", "catch")
  /\ Silent
  /\ SameClip

\* Step 2: onProgress 'analyzing', then analyzeReframe is called
\* the reframe analysis announced whatever the crop mode
ReframeBeginAnyMode ==
  /\ pc = "fetched"
  /\ Announce(CutProgress("analyzing", currentClip, <<>>), "await_reframe", "catch")
  /\ SameClip

ReframeBegin ==
  /\ pc = "fetched"
  /\ cutRequest.cropMode = "smart_reframe"
  /\ Announce(CutProgress("analyzing", currentClip, <<>>), "await_reframe", "catch")
  /\ SameClip

Reframed ==
  /\ pc = "await_reframe"
  /\ pc' = "convert"
  /\ Silent
  /\ UNCHANGED failedStage
  /\ SameClip

\* analyzeReframe threw: caught, center crop is used
ReframeFailed ==
  /\ pc = "await_reframe"
  /\ Throw("S2", "convert")
  /\ Silent
  /\ SameClip

\* Step 3: onProgress 'processing', then cutClip is called
ConvertBegin ==
  /\ \/ pc = "convert"
     \/ pc = "fetched" /\ cutRequest.cropMode # "smart_reframe"
  /\ Announce(CutProgress("processing", currentClip, <<>>), "await_cut", "catch")
  /\ SameClip

\* cutClip has written outputPath
ClipCut ==
  /\ pc = "await_cut"
  /\ pc' = IF needsSubs THEN "captions" ELSE "stat"
  /\ outputExists' = TRUE
  /\ Silent
  /\ UNCHANGED <<cutRequest, clipIndex, outputFiles, fullVideoCache, subtitleCache, subsLength, failedStage, tempDir, tempFiles, filePath>>

CutFailed ==
  /\ pc = "await_cut"
  /\ Throw("S3", "catch")
  /\ Silent
  /\ SameClip

\* Step 4: onProgress 'captioning' (before the try), then getSubtitles
SubtitlesBegin ==
  /\ pc = "captions"
  /\ Announce(Captioning, "await_subs", "catch")
  /\ SameClip

SubtitlesFetched ==
  /\ pc = "await_subs"
  /\ \E n \in SubtitleCounts : subsLength' = n
  /\ subtitleCache' \in (IF subtitleCache THEN {TRUE} ELSE BOOLEAN)
  /\ pc' = "translate"
  /\ Silent
  /\ UNCHANGED <<cutRequest, clipIndex, outputFiles, outputExists, fullVideoCache, failedStage, tempDir, tempFiles, filePath>>

SubtitlesFailed ==
  /\ pc = "await_subs"
  /\ Throw("S4", "stat")
  /\ Silent
  /\ SameClip

\* 4a
TranslateBegin ==
  /\ pc = "translate"
  /\ wantsTranslation
  /\ Announce(Captioning, "await_translate", "stat")
  /\ SameClip

TranslateSkipped ==
  /\ pc = "translate"
  /\ ~wantsTranslation
  /\ pc' = "burn"
  /\ Silent
  /\ UNCHANGED failedStage
  /\ SameClip

\* translateSubtitles returns as many entries as it was given
Translated ==
  /\ pc = "await_translate"
  /\ pc' = "burn"
  /\ Silent
  /\ UNCHANGED failedStage
  /\ SameClip

\* 4b: onProgress 'captioning', generateASSFile, ffmpeg is spawned
\* onProgress 'captioning', then generateASSFile writes captions_<i>.ass
BurnBegin ==
  /\ pc = "burn"
  /\ wantsBurn
  /\ Announce(Captioning, "await_burn", "stat")
  /\ tempDir' = IF pc' = "await_burn" THEN tempDir \cup {CaptionsFile(clipIndex)} ELSE tempDir
  /\ UNCHANGED <<tempFiles, filePath>>
  /\ SameRequest

\* generateASSFile threw
AssFileFailed ==
  /\ pc = "burn"
  /\ wantsBurn
  /\ Notify(Captioning, 0)
  /\ Throw("S4", "stat")
  /\ SameClip

BurnSkipped ==
  /\ pc = "burn"
  /\ ~wantsBurn
  /\ pc' = "dub"
  /\ Silent
  /\ UNCHANGED failedStage
  /\ SameClip

\* ffmpeg has written captionedPath
Burned ==
  /\ pc = "await_burn"
  /\ pc' = "swap_captioned"
  /\ Silent
  /\ UNCHANGED failedStage
  /\ SameClip

BurnFailed ==
  /\ pc = "await_burn"
  /\ Throw("S4", "stat")
  /\ Silent
  /\ SameClip

\* fs.unlinkSync(outputPath); fs.renameSync(captionedPath or dubbedPath, outputPath);
\* after the captioned swap, fs.unlinkSync(assPath)
Swapped ==
  /\ pc \in {"swap_captioned", "swap_dubbed"}
  /\ pc' = IF pc = "swap_captioned" THEN "dub" ELSE "stat"
  /\ tempDir' = IF pc = "swap_captioned" THEN tempDir \ {CaptionsFile(clipIndex)} ELSE tempDir
  /\ Silent
  /\ UNCHANGED <<failedStage, tempFiles, filePath>>
  /\ SameRequest

\* unlinkSync threw: outputPath is still there
UnlinkFailed ==
  /\ pc \in {"swap_captioned", "swap_dubbed"}
  /\ Throw("S4", "stat")
  /\ Silent
  /\ SameClip

\* renameSync threw after unlinkSync removed outputPath
RenameFailed ==
  /\ pc \in {"swap_captioned", "swap_dubbed"}
  /\ outputExists' = FALSE
  /\ Throw("S4", "stat")
  /\ Silent
  /\ UNCHANGED <<cutRequest, clipIndex, outputFiles, fullVideoCache, subtitleCache, subsLength, tempDir, tempFiles, filePath>>

\* 4c
DubBegin ==
  /\ pc = "dub"
  /\ wantsDub
  /\ Announce(Captioning, "await_dub", "stat")
  /\ SameClip

DubSkipped ==
  /\ pc = "dub"
  /\ ~wantsDub
  /\ pc' = "stat"
  /\ Silent
  /\ UNCHANGED failedStage
  /\ SameClip

\* generateDubbedVideo returned true and dubbedPath exists
Dubbed ==
  /\ pc = "await_dub"
  /\ pc' = "swap_dubbed"
  /\ Silent
  /\ UNCHANGED failedStage
  /\ SameClip

\* generateDubbedVideo returned false: the clip is kept without dubbing
DubFailed ==
  /\ pc = "await_dub"
  /\ Throw("S4", "stat")
  /\ Silent
  /\ SameClip

\* fs.statSync(outputPath); outputFiles.push(filename); i++
ClipRecorded ==
  /\ pc = "stat"
  /\ outputExists
  /\ outputFiles' = Append(outputFiles, currentClip)
  /\ clipIndex' = clipIndex + 1
  /\ outputExists' = FALSE
  /\ pc' = "loop"
  /\ failedStage' = "none"
  /\ Silent
  /\ UNCHANGED <<cutRequest, fullVideoCache, subtitleCache, subsLength, tempDir, tempFiles, filePath>>

\* fs.statSync(outputPath) threw: there is no file at outputPath
OutputMissing ==
  /\ pc = "stat"
  /\ ~outputExists
  /\ pc' = "catch"
  /\ Silent
  /\ UNCHANGED failedStage
  /\ SameClip

\* after the loop: cleanup of tempFiles and of the cached full video, then
\* onProgress 'done' (inside the try); the locals end with the call
JobDone ==
  /\ pc = "loop"
  /\ clipIndex >= totalClips
  /\ fullVideoCache' = FALSE
  /\ tempDir' = (tempDir \ tempFiles) \ (IF fullVideoCache THEN {FullFile} ELSE {})
  /\ Announce(CutProgress("done", totalClips, outputFiles), "finished", "catch")
  /\ tempFiles' = {}
  /\ UNCHANGED <<cutRequest, clipIndex, outputFiles, outputExists, subtitleCache, subsLength,
                 filePath>>

\* catch (err): onProgress 'error', no cleanup; an exception here rejects the
\* promise; the locals end with the call
JobFailed ==
  /\ pc = "catch"
  /\ Announce(CutProgress("error", 0, <<>>), "finished", "rejected")
  /\ tempFiles' = {}
  /\ filePath' = NoFile
  /\ UNCHANGED tempDir
  /\ SameRequest

JobInit ==
  /\ cutRequest \in CutRequests
  /\ JobCreated
  /\ fullVideoCache \in BOOLEAN
  /\ subtitleCache \in BOOLEAN
  /\ tempDir \in {{}, {SegmentFile(0, "earlier")}}
  /\ ScoreIdle
  /\ ParseIdle
  /\ AnalyzeIdle
  /\ OtherIdle

Download ==
  \/ ClipBegin \/ downloadSegment \/ PartialDownloaded \/ PartialUnsupported
  \/ PartialFailed \/ SegmentProbed \/ AudioFound \/ AudioMissing
  \/ FullVideoCached \/ downloadFullFallback \/ FullDownloaded \/ FullFailed

Convert ==
  \/ ReframeBegin \/ Reframed \/ ReframeFailed \/ ConvertBegin \/ ClipCut \/ CutFailed

Enhance ==
  \/ SubtitlesBegin \/ SubtitlesFetched \/ SubtitlesFailed
  \/ TranslateBegin \/ TranslateSkipped \/ Translated
  \/ BurnBegin \/ AssFileFailed \/ BurnSkipped \/ Burned \/ BurnFailed
  \/ Swapped \/ UnlinkFailed \/ RenameFailed
  \/ DubBegin \/ DubSkipped \/ Dubbed \/ DubFailed

JobNext ==
  \/ processJobStart \/ Download \/ Convert \/ Enhance
  \/ ClipRecorded \/ OutputMissing \/ JobDone \/ JobFailed
  \/ \E l \in Listeners : Attach(l)
  \/ \E l \in Listeners : Close(l)

SpecJob == JobInit /\ [][JobNext]_vars

\* the job with one client: the events processJob emits do not depend on how
\* many clients listen, only on whether a write to one of them throws
OneClientNext ==
  \/ processJobStart \/ Download \/ Convert \/ Enhance
  \/ ClipRecorded \/ OutputMissing \/ JobDone \/ JobFailed
  \/ Attach(1) \/ Close(1)

SpecJobOneClient == JobInit /\ [][OneClientNext]_vars

\* ───────────────────── scoreSegments ─────────────────────
\* Intensities are thousandths and times are milliseconds, as above; every
\* score is the integer the code's Math.round produces.

NumScorePoints == 4
ScoreSlotMs == 2 * 1000
ScoreIntensities == {0, 300, 1000}
ScoreStarts == {0, 2000, 5000, 8000}
ScoreDurations == {10 * 1000, 17 * 1000, 25 * 1000, 40 * 1000, 50 * 1000, 70 * 1000}
ScoreAvgs == {0, 400, 1000}
ScorePeaks == {0, 500, 1000}
ScoreVideoDurations == {8 * 1000, 12 * 1000, 30 * 1000}

\* Math.round(n / d) for d > 0: floor(n / d + 1/2)
RoundDiv(n, d) == (2 * n + d) \div (2 * d)

SumIntensity(points) == SumSeq([k \in 1..Len(points) |-> points[k].intensity])
SumSquares(points) == SumSeq([k \in 1..Len(points) |-> points[k].intensity * points[k].intensity])

\* 1. Math.round(seg.peakIntensity * 100)
peakIntensity(seg) == RoundDiv(seg.peakIntensity * 100, 1000)

\* heatmap points that intersect the first three seconds of the segment
hookPoints(seg, points) ==
  SelectSeq(points, LAMBDA p : p.startMs < seg.startS + 3000 /\ p.endMs > seg.startS)

\* 2. min(100, round(avgHookIntensity * 85 + hookBonus)), or round(avg * 50)
hookStrength(seg, points) ==
  LET hp == hookPoints(seg, points)
      n == Len(hp)
      hookBonus == IF SumIntensity(hp) > seg.avgIntensity * n THEN 15 ELSE 0
  IN IF n > 0
       THEN Min(100, RoundDiv(SumIntensity(hp) * 85 + hookBonus * n * 1000, n * 1000))
       ELSE RoundDiv(seg.avgIntensity * 50, 1000)

\* heatmap points that start inside the segment
segPoints(seg, points) ==
  SelectSeq(points, LAMBDA p : p.startMs >= seg.startS /\ p.startMs <= seg.endS)

\* Math.round(stdDev * 400) of the points' intensities: with n points,
\* stdDev * 400 = 0.4 * sqrt(n * sum of squares - square of sum) / n in
\* thousandths, and r <= x + 1/2 iff r = 0 or 25 n^2 (2r - 1)^2 <= 16 D; the
\* r that fit are 0..round(x), at most 0..200 for intensities in 0..1000
RoundStdDev400(sp) ==
  LET n == Len(sp)
      D == n * SumSquares(sp) - SumIntensity(sp) * SumIntensity(sp)
      fits == {r \in 0..200 : r = 0 \/ 25 * n * n * (2 * r - 1) * (2 * r - 1) <= 16 * D}
  IN Cardinality(fits) - 1

pacingUncapped(seg, points) ==
  LET sp == segPoints(seg, points)
  IN IF Len(sp) >= 3 THEN RoundStdDev400(sp) ELSE 50

\* 3. 50, or min(100, round(stdDev * 400)) with at least three points
pacing(seg, points) ==
  LET sp == segPoints(seg, points)
  IN IF Len(sp) >= 3 THEN Min(100, RoundStdDev400(sp)) ELSE 50

\* 4. Math.round(seg.avgIntensity * 100)
audioEnergy(seg) == RoundDiv(seg.avgIntensity * 100, 1000)

\* 5. three linear ramps over relativePosition = startS / videoDurationS:
\* 80 + round((1 - rel/0.33) * 20), 50 + round((1 - (rel - 0.33)/0.33) * 30),
\* 30 + round((1 - (rel - 0.66)/0.34) * 20)
positionBonus(seg, durationS) ==
  LET st == seg.startS
  IN IF 100 * st < 33 * durationS
       THEN 80 + RoundDiv(660 * durationS - 2000 * st, 33 * durationS)
     ELSE IF 100 * st < 66 * durationS
       THEN 50 + RoundDiv(1980 * durationS - 3000 * st, 33 * durationS)
     ELSE 30 + RoundDiv(2000 * durationS - 2000 * st, 34 * durationS)

\* 6. sweet spot 30-45 s
durationFit(seg) ==
  LET dur == seg.durationS
  IN IF dur >= 30000 /\ dur <= 45000 THEN 100
     ELSE IF dur >= 20000 /\ dur < 30000 THEN 70 + RoundDiv((dur - 20000) * 30, 10000)
     ELSE IF dur > 45000 /\ dur <= 60000 THEN 70 + RoundDiv((60000 - dur) * 30, 15000)
     ELSE IF dur >= 15000 /\ dur < 20000 THEN 50
     ELSE 30

\* the weighted score: round(0.30 p + 0.25 h + 0.15 c + 0.15 a + 0.10 b + 0.05 f)
overall(p, h, c, a, b, f) ==
  RoundDiv(30 * p + 25 * h + 15 * c + 15 * a + 10 * b + 5 * f, 100)

label(score) ==
  IF score >= 80 THEN "Viral"
  ELSE IF score >= 60 THEN "Strong"
  ELSE IF score >= 40 THEN "Good"
  ELSE "Fair"

ViralityBreakdown(seg, points, durationS) ==
  LET p == peakIntensity(seg)
      h == hookStrength(seg, points)
      c == pacing(seg, points)
      a == audioEnergy(seg)
      b == positionBonus(seg, durationS)
      f == durationFit(seg)
  IN [overall |-> overall(p, h, c, a, b, f), peakIntensity |-> p, hookStrength |-> h,
      pacing |-> c, audioEnergy |-> a, positionBonus |-> b, durationFit |-> f,
      label |-> label(overall(p, h, c, a, b, f))]

scoreSegments(segs, points, durationS) ==
  [k \in 1..Len(segs) |-> ViralityBreakdown(segs[k], points, durationS)]

ScoreHeatmaps ==
  {[k \in 1..NumScorePoints |->
      [startMs |-> (k - 1) * ScoreSlotMs, endMs |-> k * ScoreSlotMs, intensity |-> f[k]]] :
     f \in [1..NumScorePoints -> ScoreIntensities]}

ScoreSegment(st, dur, avg, peak) ==
  [startS |-> st, endS |-> st + dur, durationS |-> dur, avgIntensity |-> avg,
   peakIntensity |-> peak]

\* the arguments of a call: no segment or one segment that starts inside the video
ScoreInit ==
  /\ scoreHeatmap \in ScoreHeatmaps
  /\ scoreDurationS \in ScoreVideoDurations
  /\ \/ scoreSegmentsIn = <<>>
     \/ \E st \in ScoreStarts, dur \in ScoreDurations, avg \in ScoreAvgs, peak \in ScorePeaks :
          /\ st <= scoreDurationS
          /\ scoreSegmentsIn = <<ScoreSegment(st, dur, avg, peak)>>
  /\ viralityScores = <<>>
  /\ AnalyzeIdle
  /\ JobIdle
  /\ ParseIdle
  /\ OtherIdle

\* one call of scoreSegments on the arguments; it is called twice
ScoreSegments ==
  /\ Len(viralityScores) < 2
  /\ viralityScores' =
       Append(viralityScores, scoreSegments(scoreSegmentsIn, scoreHeatmap, scoreDurationS))
  /\ UNCHANGED <<scoreSegmentsIn, scoreHeatmap, scoreDurationS, analyzeVars, jobVars, parseVars,
               otherVars>>

SpecScore == ScoreInit /\ [][ScoreSegments]_vars

\* ───────────────────── parseTimeInput ─────────────────────
\* A string is a sequence of one-character strings. A number is kept as the
\* exact decimal num / den with den a power of ten, in lowest such terms.

MaxInputLen == 4
Digits == {"0", "1", "7"}
Chars == Digits \cup {":", "-", ".", " ", "a"}

TimeInputs == UNION {[1..n -> Chars] : n \in 0..MaxInputLen}

RECURSIVE trimStart(_)
trimStart(s) == IF s # <<>> /\ Head(s) = " " THEN trimStart(Tail(s)) ELSE s

RECURSIVE trimEnd(_)
trimEnd(s) ==
  IF s # <<>> /\ s[Len(s)] = " " THEN trimEnd(SubSeq(s, 1, Len(s) - 1)) ELSE s

\* String.prototype.trim
trim(s) == trimEnd(trimStart(s))

\* /^\d+$/.test(s)
IsDigits(s) == s # <<>> /\ \A k \in 1..Len(s) : s[k] \in Digits

DigitValue(c) == IF c = "0" THEN 0 ELSE IF c = "1" THEN 1 ELSE 7

RECURSIVE DigitsValue(_)
DigitsValue(s) ==
  IF s = <<>> THEN 0
  ELSE 10 * DigitsValue(SubSeq(s, 1, Len(s) - 1)) + DigitValue(s[Len(s)])

\* parseInt of a string of decimal digits
parseInt(s) == DigitsValue(s)

RECURSIVE Pow10(_)
Pow10(n) == IF n = 0 THEN 1 ELSE 10 * Pow10(n - 1)

NaN == [nan |-> TRUE, num |-> 0, den |-> 1]

RECURSIVE Decimal(_, _)
Decimal(num, den) ==
  IF den > 1 /\ num % 10 = 0 THEN Decimal(num \div 10, den \div 10)
  ELSE [nan |-> FALSE, num |-> num, den |-> den]

\* String.prototype.split(':'): the fields between the colons, empty ones kept
RECURSIVE split(_)
split(s) ==
  IF \A k \in 1..Len(s) : s[k] # ":" THEN <<s>>
  ELSE LET at == CHOOSE k \in 1..Len(s) : s[k] = ":" /\ \A j \in 1..(k - 1) : s[j] # ":"
       IN <<SubSeq(s, 1, at - 1)>> \o split(SubSeq(s, at + 1, Len(s)))

\* Number(field): surrounding white space is dropped, the empty string is 0,
\* an optional sign followed by digits with at most one point and at least
\* one digit is that decimal, everything else is NaN
Number(field) ==
  LET t == trim(field)
      neg == t # <<>> /\ Head(t) = "-"
      body == IF neg THEN Tail(t) ELSE t
      points == {k \in 1..Len(body) : body[k] = "."}
      at == IF points = {} THEN Len(body) + 1 ELSE CHOOSE k \in points : TRUE
      whole == SubSeq(body, 1, at - 1)
      frac == SubSeq(body, at + 1, Len(body))
      magnitude == DigitsValue(whole \o frac)
  IN IF t = <<>> THEN Decimal(0, 1)
     ELSE IF /\ Cardinality(points) <= 1
             /\ \A k \in 1..Len(body) : body[k] \in Digits \cup {"."}
             /\ Len(whole) + Len(frac) >= 1
       THEN Decimal(IF neg THEN 0 - magnitude ELSE magnitude, Pow10(Len(frac)))
     ELSE NaN

\* a * factor + b on decimals
MulAdd(a, factor, b) ==
  LET den == Max(a.den, b.den)
  IN Decimal(a.num * (den \div a.den) * factor + b.num * (den \div b.den), den)

NullTime == [isNull |-> TRUE, num |-> 0, den |-> 1]
Seconds(d) == [isNull |-> FALSE, num |-> d.num, den |-> d.den]

parseTimeInput(input) ==
  LET trimmed == trim(input)
      parts == [k \in 1..Len(split(trimmed)) |-> Number(split(trimmed)[k])]
  IN IF IsDigits(trimmed) THEN Seconds(Decimal(parseInt(trimmed), 1))
     ELSE IF \E k \in 1..Len(parts) : parts[k].nan THEN NullTime
     ELSE IF Len(parts) = 2 THEN Seconds(MulAdd(parts[1], 60, parts[2]))
     ELSE IF Len(parts) = 3
       THEN Seconds(MulAdd(MulAdd(parts[1], 60, parts[2]), 60, parts[3]))
     ELSE NullTime

ParseInit ==
  /\ timeInput \in TimeInputs
  /\ parsedTime = <<>>
  /\ AnalyzeIdle
  /\ JobIdle
  /\ ScoreIdle
  /\ OtherIdle

\* the edit field's text is parsed (saveEdit, and the length preview)
ParseTimeInput ==
  /\ parsedTime = <<>>
  /\ parsedTime' = <<parseTimeInput(timeInput)>>
  /\ UNCHANGED <<timeInput, analyzeVars, jobVars, scoreVars, otherVars>>

SpecParse == ParseInit /\ [][ParseTimeInput]_vars

\* ───────────────────── optimizeSegments on silence regions ─────────────────────

\* segments whose start window is whole, and cut by the start of the video
BoundarySegments ==
  {[startS |-> 100 * 1000, endS |-> 140 * 1000, durationS |-> 40 * 1000,
    avgIntensity |-> 700, peakIntensity |-> 900],
   [startS |-> 3 * 1000, endS |-> 43 * 1000, durationS |-> 40 * 1000,
    avgIntensity |-> 700, peakIntensity |-> 900]}

\* silences that end before, at the edges of, inside and after the start window
\* of a segment that starts at startS
SilencesNear(startS) ==
  {[startS |-> startS - 2000, endS |-> startS - 1000],
   [startS |-> startS - 6000, endS |-> startS - 5000],
   [startS |-> startS + 1000, endS |-> startS + 2000],
   [startS |-> startS + 2000, endS |-> startS + 3000]}

MaxSilences == 2

\* one-second heatmap points around the start, each absent or of some intensity
PointOffsets == <<0 - 4000, 0 - 1000, 1000>>
HeatmapNear(startS, f) ==
  LET all == [k \in 1..Len(PointOffsets) |->
                [startMs |-> startS + PointOffsets[k],
                 endMs |-> startS + PointOffsets[k] + 1000,
                 intensity |-> f[k]]]
  IN SelectSeq(all, LAMBDA p : p.intensity # Null /\ p.startMs >= 0)

BoundaryInit ==
  /\ \E seg \in BoundarySegments :
       /\ boundarySegments = <<seg>>
       /\ \E f \in [1..Len(PointOffsets) -> Intensities \cup {Null}] :
            boundaryHeatmap = HeatmapNear(seg.startS, f)
       /\ \E n \in 0..MaxSilences :
            \E sil \in [1..n -> SilencesNear(seg.startS)] :
              /\ \A i, j \in 1..n : i # j => sil[i] # sil[j]
              /\ \A i \in 1..n : sil[i].startS >= 0
              /\ boundarySilences = sil
  /\ boundaryOptimized = <<>>
  /\ AnalyzeIdle
  /\ JobIdle
  /\ ScoreIdle
  /\ ParseIdle
  /\ BatchIdle
  /\ CaptionIdle
  /\ ConcurrentIdle
  /\ SeekIdle

\* optimizeSegments(segments, heatmap, context, videoDurationS) with the default
\* targets, on a context that holds silence regions
OptimizeSegments ==
  /\ boundaryOptimized = <<>>
  /\ boundaryOptimized' =
       <<optimizeSegments(boundarySegments, boundaryHeatmap, boundarySilences,
                          LongVideoMs, DefaultTargetMinMs, DefaultTargetMaxMs)>>
  /\ UNCHANGED <<boundarySegments, boundaryHeatmap, boundarySilences,
                 analyzeVars, jobVars, scoreVars, parseVars, batchVars, captionVars,
                 concurrentVars, seekVars>>

SpecOptimize == BoundaryInit /\ [][OptimizeSegments]_vars

\* ───────────────────── POST /api/batch ─────────────────────
\* The loop over validUrls, one action per stretch between two awaits. The cut
\* job of a URL is seen through jobs.get(jobId).progress only: it runs, and ends
\* done with its files or in error without any. notifyBatchListeners guards its
\* writes and changes nothing of the batch.

MaxUrls == 3
FileLists == {<<>>, <<"clip_1">>}

\* { url, status: 'pending' }
PendingResult == [status |-> "pending", files |-> <<>>, error |-> ""]
NoJob == [status |-> "none", files |-> <<>>]

BatchInit ==
  /\ batchStatus = "processing"
  /\ \E n \in 1..MaxUrls :
       /\ results = [u \in 1..n |-> PendingResult]
       /\ cutJobs = [u \in 1..n |-> NoJob]
  /\ urlIndex = 0
  /\ batchPc = "loop"
  /\ AnalyzeIdle
  /\ JobIdle
  /\ ScoreIdle
  /\ ParseIdle
  /\ BoundaryIdle
  /\ CaptionIdle
  /\ ConcurrentIdle
  /\ SeekIdle

BatchFrame ==
  UNCHANGED <<analyzeVars, jobVars, scoreVars, parseVars, boundaryVars, captionVars,
              concurrentVars, seekVars>>

\* results[i].status = 'analyzing', then the fetch of /api/analyze
UrlBegin ==
  /\ batchPc = "loop"
  /\ urlIndex < Len(results)
  /\ results' = [results EXCEPT ![urlIndex + 1].status = "analyzing"]
  /\ batchPc' = "await_analyze"
  /\ UNCHANGED <<batchStatus, urlIndex, cutJobs>>
  /\ BatchFrame

\* the catch that leaves the loop at the first failure
UrlFailedEndsBatch(message) ==
  /\ results' = [results EXCEPT ![urlIndex + 1].status = "error",
                                ![urlIndex + 1].error = message]
  /\ urlIndex' = Len(results)
  /\ batchPc' = "loop"
  /\ UNCHANGED <<batchStatus, cutJobs>>
  /\ BatchFrame

\* catch (err): status 'error' and the message, then the next URL
UrlFailed(message) ==
  /\ results' = [results EXCEPT ![urlIndex + 1].status = "error",
                                ![urlIndex + 1].error = message]
  /\ urlIndex' = urlIndex + 1
  /\ batchPc' = "loop"
  /\ UNCHANGED <<batchStatus, cutJobs>>
  /\ BatchFrame

\* the fetch threw or the answer is not ok
AnalyzeFailed ==
  /\ batchPc = "await_analyze"
  /\ UrlFailed("Analysis failed")

\* the analysis answered: 'cutting'; with segments /api/cut is fetched, without
\* any the result is 'done' at once
Analyzed ==
  /\ batchPc = "await_analyze"
  /\ \E selectedSegments \in 0..1 :
       IF selectedSegments > 0
       THEN /\ results' = [results EXCEPT ![urlIndex + 1].status = "cutting"]
            /\ batchPc' = "await_cut"
            /\ UNCHANGED urlIndex
       ELSE /\ results' = [results EXCEPT ![urlIndex + 1].status = "done"]
            /\ batchPc' = "loop"
            /\ urlIndex' = urlIndex + 1
  /\ UNCHANGED <<batchStatus, cutJobs>>
  /\ BatchFrame

\* /api/cut answered with a jobId: the job exists and runs
CutPosted ==
  /\ batchPc = "await_cut"
  /\ cutJobs' = [cutJobs EXCEPT ![urlIndex + 1] = [status |-> "downloading", files |-> <<>>]]
  /\ batchPc' = "wait_job"
  /\ UNCHANGED <<batchStatus, results, urlIndex>>
  /\ BatchFrame

CutRejected ==
  /\ batchPc = "await_cut"
  /\ UrlFailed("Cutting failed")

\* processJob of the cut job emits done with its files
CutJobDone ==
  /\ \E u \in 1..Len(cutJobs) :
       /\ cutJobs[u].status = "downloading"
       /\ \E files \in FileLists :
            cutJobs' = [cutJobs EXCEPT ![u] = [status |-> "done", files |-> files]]
  /\ UNCHANGED <<batchStatus, results, urlIndex, batchPc>>
  /\ BatchFrame

\* processJob of the cut job emits error: the event has no files
CutJobFailed ==
  /\ \E u \in 1..Len(cutJobs) :
       /\ cutJobs[u].status = "downloading"
       /\ cutJobs' = [cutJobs EXCEPT ![u] = [status |-> "error", files |-> <<>>]]
  /\ UNCHANGED <<batchStatus, results, urlIndex, batchPc>>
  /\ BatchFrame

\* waitForJob resolves on a terminal progress; files = job.progress.files || [],
\* status = 'done', then the next URL
waitForJob ==
  /\ batchPc = "wait_job"
  /\ cutJobs[urlIndex + 1].status \in {"done", "error"}
  /\ results' = [results EXCEPT ![urlIndex + 1].files = cutJobs[urlIndex + 1].files,
                                ![urlIndex + 1].status = "done"]
  /\ urlIndex' = urlIndex + 1
  /\ batchPc' = "loop"
  /\ UNCHANGED <<batchStatus, cutJobs>>
  /\ BatchFrame

\* after the loop: batch.status = 'done'
BatchDone ==
  /\ batchPc = "loop"
  /\ urlIndex >= Len(results)
  /\ batchStatus' = "done"
  /\ batchPc' = "finished"
  /\ UNCHANGED <<results, urlIndex, cutJobs>>
  /\ BatchFrame

\* the steps of the batch loop, and those of the cut jobs
BatchLoop ==
  \/ UrlBegin \/ AnalyzeFailed \/ Analyzed \/ CutPosted \/ CutRejected
  \/ waitForJob \/ BatchDone

BatchNext == BatchLoop \/ CutJobDone \/ CutJobFailed

SpecBatch == BatchInit /\ [][BatchNext]_vars

\* the event loop runs every continuation that is ready; whether a cut job ever
\* ends is left open
SpecBatchFair == SpecBatch /\ WF_vars(BatchLoop)

\* ───────────────────── getSubtitles over the clips of a job ─────────────────────
\* processJob clears the subtitle cache and calls getSubtitles(url, ...) for one
\* clip after another, all with the job's URL. A download gives null or the
\* entries of the video, which have a slice for some of the clips.

MaxCaptionClips == 3

CaptionInit ==
  /\ captionClips \in 1..MaxCaptionClips
  /\ captionClip = 0
  /\ captionPc = "call"
  /\ cachedEntries = NoSubtitleCache
  /\ downloadAttempts = 0
  /\ subtitleSources = <<>>
  /\ AnalyzeIdle
  /\ JobIdle
  /\ ScoreIdle
  /\ ParseIdle
  /\ BoundaryIdle
  /\ BatchIdle
  /\ ConcurrentIdle
  /\ SeekIdle

CaptionFrame ==
  UNCHANGED <<analyzeVars, jobVars, scoreVars, parseVars, boundaryVars, batchVars,
              concurrentVars, seekVars>>

\* getSubtitles returns for the clip, and the loop goes to the next clip
SubtitlesReturned(source) ==
  /\ subtitleSources' = Append(subtitleSources, source)
  /\ captionClip' = captionClip + 1
  /\ captionPc' = IF captionClip + 1 < captionClips THEN "call" ELSE "finished"

\* getSubtitles up to its first await: the cached slice, the download, or Whisper
getSubtitles ==
  /\ captionPc = "call"
  /\ IF cachedEntries.cached /\ (captionClip + 1) \in cachedEntries.clips
     THEN /\ SubtitlesReturned("cache")
          /\ UNCHANGED downloadAttempts
     ELSE IF ~cachedEntries.cached
          THEN /\ downloadAttempts' = downloadAttempts + 1
               /\ captionPc' = "await_download"
               /\ UNCHANGED <<captionClip, subtitleSources>>
          ELSE /\ captionPc' = "await_whisper"
               /\ UNCHANGED <<captionClip, subtitleSources, downloadAttempts>>
  /\ UNCHANGED <<captionClips, cachedEntries>>
  /\ CaptionFrame

\* downloadYouTubeSubtitlesFull returned entries: they are cached, and sliced
SubtitlesDownloaded ==
  /\ captionPc = "await_download"
  /\ \E entries \in SUBSET (1..captionClips) :
       /\ cachedEntries' = [cached |-> TRUE, clips |-> entries]
       /\ IF (captionClip + 1) \in entries
          THEN SubtitlesReturned("youtube")
          ELSE /\ captionPc' = "await_whisper"
               /\ UNCHANGED <<captionClip, subtitleSources>>
  /\ UNCHANGED <<captionClips, downloadAttempts>>
  /\ CaptionFrame

\* downloadYouTubeSubtitlesFull returned null: nothing is cached
NoSubtitlesDownloaded ==
  /\ captionPc = "await_download"
  /\ captionPc' = "await_whisper"
  /\ UNCHANGED <<captionClips, captionClip, cachedEntries, downloadAttempts, subtitleSources>>
  /\ CaptionFrame

\* transcribeWithWhisper returned, with entries or without
Transcribed ==
  /\ captionPc = "await_whisper"
  /\ \E source \in {"whisper", "none"} : SubtitlesReturned(source)
  /\ UNCHANGED <<captionClips, cachedEntries, downloadAttempts>>
  /\ CaptionFrame

CaptionNext == getSubtitles \/ SubtitlesDownloaded \/ NoSubtitlesDownloaded \/ Transcribed

SpecCaptions == CaptionInit /\ [][CaptionNext]_vars

\* ───────────────────── two jobs and the full-video fallback ─────────────────────
\* Two POST /api/cut requests for different URLs; each processJob runs from one
\* await to the next, and the two interleave there. Of a job only what touches
\* the full-video fallback is kept: the partial download of a clip succeeds or
\* falls back, the clip is cut from the fetched file, and the job cleans up.

CutJobs == {1, 2}
MaxJobClips == 2
NoVideo == 0
\* a clip fetched by a partial download of its own
OwnSegment == 0 - 1

ConcurrentInit ==
  /\ sharedFullVideoCache = NoVideo
  /\ fullVideos = {}
  /\ jobPcs = [j \in CutJobs |-> "submit"]
  /\ \E n \in [CutJobs -> 1..MaxJobClips] : jobClips = [j \in CutJobs |-> [i |-> 0, length |-> n[j]]]
  /\ jobSources = [j \in CutJobs |-> NoVideo]
  /\ jobTempFiles = [j \in CutJobs |-> {}]
  /\ cutSources = [j \in CutJobs |-> {}]
  /\ AnalyzeIdle
  /\ JobIdle
  /\ ScoreIdle
  /\ ParseIdle
  /\ BoundaryIdle
  /\ BatchIdle
  /\ CaptionIdle
  /\ SeekIdle

ConcurrentFrame ==
  UNCHANGED <<analyzeVars, jobVars, scoreVars, parseVars, boundaryVars, batchVars, captionVars,
              seekVars>>

\* POST /api/cut: processJob resets fullVideoCache and runs to the yt-dlp call of
\* the first clip
SubmitJob(j) ==
  /\ jobPcs[j] = "submit"
  /\ sharedFullVideoCache' = NoVideo
  /\ jobPcs' = [jobPcs EXCEPT ![j] = "await_partial"]
  /\ UNCHANGED <<fullVideos, jobClips, jobSources, jobTempFiles, cutSources>>
  /\ ConcurrentFrame

\* the partial download gave a segment with audio: tempFiles.push, then cutClip
SegmentFetched(j) ==
  /\ jobPcs[j] = "await_partial"
  /\ jobSources' = [jobSources EXCEPT ![j] = OwnSegment]
  /\ jobPcs' = [jobPcs EXCEPT ![j] = "await_cut"]
  /\ UNCHANGED <<sharedFullVideoCache, fullVideos, jobClips, jobTempFiles, cutSources>>
  /\ ConcurrentFrame

\* downloadFullFallback(url): the cached file when there is one and it exists,
\* else yt-dlp is started on the job's URL
FallbackCalled(j) ==
  /\ jobPcs[j] = "await_partial"
  /\ IF sharedFullVideoCache # NoVideo /\ sharedFullVideoCache \in fullVideos
     THEN /\ jobSources' = [jobSources EXCEPT ![j] = sharedFullVideoCache]
          /\ jobTempFiles' = [jobTempFiles EXCEPT ![j] = @ \cup {sharedFullVideoCache}]
          /\ jobPcs' = [jobPcs EXCEPT ![j] = "await_cut"]
     ELSE /\ jobPcs' = [jobPcs EXCEPT ![j] = "await_full"]
          /\ UNCHANGED <<jobSources, jobTempFiles>>
  /\ UNCHANGED <<sharedFullVideoCache, fullVideos, jobClips, cutSources>>
  /\ ConcurrentFrame

\* yt-dlp wrote full_<id>.mp4 of the job's URL; fullVideoCache = files[0] of the
\* full_*.mp4 files of TEMP_DIR, in the directory's order
FallbackDownloaded(j) ==
  /\ jobPcs[j] = "await_full"
  /\ fullVideos' = fullVideos \cup {j}
  /\ \E first \in fullVideos' :
       /\ sharedFullVideoCache' = first
       /\ jobSources' = [jobSources EXCEPT ![j] = first]
       /\ jobTempFiles' = [jobTempFiles EXCEPT ![j] = @ \cup {first}]
  /\ jobPcs' = [jobPcs EXCEPT ![j] = "await_cut"]
  /\ UNCHANGED <<jobClips, cutSources>>
  /\ ConcurrentFrame

\* cutClip wrote the clip from the fetched file; then the next clip, or after the
\* last one the cleanup: tempFiles other than fullVideoCache are unlinked, then
\* fullVideoCache is unlinked and reset
ClipCutFrom(j) ==
  /\ jobPcs[j] = "await_cut"
  /\ jobSources[j] = OwnSegment \/ jobSources[j] \in fullVideos
  /\ cutSources' = [cutSources EXCEPT ![j] = @ \cup {jobSources[j]}]
  /\ jobClips' = [jobClips EXCEPT ![j].i = @ + 1]
  /\ jobSources' = [jobSources EXCEPT ![j] = NoVideo]
  /\ IF jobClips[j].i + 1 < jobClips[j].length
     THEN /\ jobPcs' = [jobPcs EXCEPT ![j] = "await_partial"]
          /\ UNCHANGED <<sharedFullVideoCache, fullVideos, jobTempFiles>>
     ELSE /\ jobPcs' = [jobPcs EXCEPT ![j] = "finished"]
          /\ fullVideos' = (fullVideos \ (jobTempFiles[j] \ {sharedFullVideoCache}))
                             \ {sharedFullVideoCache}
          /\ sharedFullVideoCache' = NoVideo
          /\ jobTempFiles' = [jobTempFiles EXCEPT ![j] = {}]
  /\ ConcurrentFrame

\* ffmpeg does not find the fetched file: cutClip throws and the job ends in error
InputFileGone(j) ==
  /\ jobPcs[j] = "await_cut"
  /\ jobSources[j] # OwnSegment
  /\ jobSources[j] \notin fullVideos
  /\ jobPcs' = [jobPcs EXCEPT ![j] = "finished"]
  /\ jobSources' = [jobSources EXCEPT ![j] = NoVideo]
  /\ UNCHANGED <<sharedFullVideoCache, fullVideos, jobClips, jobTempFiles, cutSources>>
  /\ ConcurrentFrame

ConcurrentNext ==
  \E j \in CutJobs :
    \/ SubmitJob(j) \/ SegmentFetched(j) \/ FallbackCalled(j) \/ FallbackDownloaded(j)
    \/ ClipCutFrom(j) \/ InputFileGone(j)

SpecConcurrent == ConcurrentInit /\ [][ConcurrentNext]_vars

\* ───────────────────── the time range read from a fetched clip ─────────────────────
\* Steps 1 to 3 of processJob for one clip, with the seek positions they hand to
\* analyzeReframe and cutClip. Times are milliseconds.

SegmentBufferMs == 3000
MaxStartS == 25
ClipStarts == {n * 500 : n \in 0..MaxStartS}

SeekInit ==
  /\ clipStartS \in ClipStarts
  /\ clipCropMode \in CropModes
  /\ fetched = "none"
  /\ offsetS = Null
  /\ analysisStartS = Null
  /\ seekTime = Null
  /\ AnalyzeIdle
  /\ JobIdle
  /\ ScoreIdle
  /\ ParseIdle
  /\ BoundaryIdle
  /\ BatchIdle
  /\ CaptionIdle
  /\ ConcurrentIdle

SeekFrame ==
  UNCHANGED <<clipStartS, clipCropMode, analyzeVars, jobVars, scoreVars, parseVars,
              boundaryVars, batchVars, captionVars, concurrentVars>>

\* downloadSegment returned the file of the section [bufStart, bufEnd]
SegmentReturned ==
  /\ fetched = "none"
  /\ fetched' = "partial"
  /\ offsetS' = clipStartS - Max(0, clipStartS - SegmentBufferMs)
  /\ UNCHANGED <<analysisStartS, seekTime>>
  /\ SeekFrame

\* downloadSegment returned what downloadFullFallback returned: offsetS 0
FullVideoReturned ==
  /\ fetched = "none"
  /\ fetched' = "full"
  /\ offsetS' = 0
  /\ UNCHANGED <<analysisStartS, seekTime>>
  /\ SeekFrame

\* analyzeReframe(segmentPath, offsetS, clipDuration)
analyzeReframe ==
  /\ fetched # "none"
  /\ clipCropMode = "smart_reframe"
  /\ analysisStartS = Null
  /\ seekTime = Null
  /\ analysisStartS' = offsetS
  /\ UNCHANGED <<fetched, offsetS, seekTime>>
  /\ SeekFrame

\* seekTime = offsetS === 0 ? seg.startS : offsetS; cutClip(segmentPath, seekTime, ...)
cutClip ==
  /\ fetched # "none"
  /\ clipCropMode = "smart_reframe" => analysisStartS # Null
  /\ seekTime = Null
  /\ seekTime' = IF offsetS = 0 THEN clipStartS ELSE offsetS
  /\ UNCHANGED <<fetched, offsetS, analysisStartS>>
  /\ SeekFrame

SeekNext == SegmentReturned \/ FullVideoReturned \/ analyzeReframe \/ cutClip

SpecSeek == SeekInit /\ [][SeekNext]_vars

\* ───────────────────── claims: peak detection and boundaries ─────────────────────

\* segs in ascending startS order
ByStart(segs) == StableSort(segs, [k \in 1..Len(segs) |-> segs[k].startS])

\* every consecutive pair of segs is at least `gap` apart
GapsAtLeast(segs, gap) ==
  \A i \in 2..Len(segs) : segs[i].startS - segs[i - 1].endS >= gap

IsSortedByStart(segs) ==
  \A i \in 2..Len(segs) : segs[i - 1].startS <= segs[i].startS

\* the relaxed gap as the claims state it
StatedRelaxedGap == IF settings.minGapS \div 2 >= 10000 THEN settings.minGapS \div 2 ELSE 10000

\* C1 (as stated): after findPeakSegments + optimizeSegments + applyOptimizations
\* the segments, taken in startS order, do not overlap.
C1_NoOverlapAfterOptimization ==
  phase = "optimized" => GapsAtLeast(ByStart(segments), 0)

\* C2 (as stated): the list findPeakSegments returns is sorted by startS and
\* consecutive segments are at least effectiveGapS apart, effectiveGapS being the
\* gap of the last pass that ran: minGapS, or relaxedGap when the relaxation ran.
C2_GapOfLastPass ==
  phase = "peaks" =>
    /\ IsSortedByStart(segments)
    /\ GapsAtLeast(segments, IF detection.relaxed THEN StatedRelaxedGap ELSE settings.minGapS)

\* C2 (amended): the list is sorted by startS, does not overlap, and consecutive
\* segments are at least minGapS apart when only the strict pass ran and at least
\* min(minGapS, relaxedGap) apart when the relaxation pass ran.
C2_GapOfWeakestPass ==
  phase = "peaks" =>
    /\ IsSortedByStart(segments)
    /\ GapsAtLeast(segments, 0)
    /\ GapsAtLeast(segments, IF detection.relaxed
                             THEN Min(settings.minGapS, StatedRelaxedGap)
                             ELSE settings.minGapS)

\* C2 witness: the relaxation pass ran with minGapS below the relaxed gap and the
\* list holds two segments closer than the relaxed gap
C2_Witness ==
  /\ phase = "peaks"
  /\ detection.relaxed
  /\ settings.minGapS < StatedRelaxedGap
  /\ Len(segments) >= 2
  /\ segments[2].startS - segments[1].endS < StatedRelaxedGap

\* C3: when the strict pass alone selected topN, consecutive segments of the
\* result are at least minGapS apart.
C3_StrictGapDiscipline ==
  (phase = "peaks" /\ detection.strictCount >= settings.topN) =>
    GapsAtLeast(segments, settings.minGapS)

\* C3 witness: the strict pass filled topN >= 2 under a positive minGapS
C3_Witness ==
  /\ phase = "peaks"
  /\ detection.strictCount >= settings.topN
  /\ ~detection.relaxed
  /\ Len(segments) >= 2
  /\ settings.minGapS > 0

DurationInBounds(d) ==
  /\ d >= settings.minDurationS - 100
  /\ d <= settings.maxDurationS + 100

\* C4 (as stated): every candidate at the start of selection, and every segment
\* after optimizeSegments, has minDurationS <= durationS <= maxDurationS (+-0.1 s).
C4_DurationBounds ==
  /\ phase = "peaks" =>
       \A i \in 1..Len(detection.candidates) : DurationInBounds(detection.candidates[i].durationS)
  /\ phase = "optimized" =>
       \A i \in 1..Len(segments) : DurationInBounds(segments[i].durationS)

InVideo(seg) == 0 <= seg.startS /\ seg.startS < seg.endS /\ seg.endS <= videoDurationS

\* C5 (as stated): every segment of findPeakSegments, and every segment after the
\* optimizer, satisfies 0 <= startS < endS <= videoDurationS.
C5_InBounds ==
  phase \in {"peaks", "optimized"} => \A i \in 1..Len(segments) : InVideo(segments[i])

\* ───────────────────── claims: jobs and their listeners ─────────────────────

\* C6: on one listener the currentClip values it receives never decrease,
\* the terminal event included, also when the job fails
C6_CurrentClipNonDecreasing ==
  [][\A l \in Listeners :
       (streams[l].state = "open" /\ streams'[l].state \in {"open", "ended"})
         => streams'[l].currentClip >= streams[l].currentClip]_vars

\* C7: a job emits at most one terminal event, nothing after it, and
\* job.progress never changes once it holds a terminal status
C7_SingleFinalTerminal ==
  [][IsTerminal(progress.status)
       => (progress' = progress /\ terminalEvents' = terminalEvents)]_vars

\* C8: a failure of S1 (download) or S3 (transcode) of a clip does not reach
\* the job: processing goes on and the job does not end in 'error'
C8_ClipFailureIsolated ==
  failedStage \in {"S1", "S3"}
    => (pc \notin {"catch", "rejected"} /\ progress.status # "error")

\* C9: after a failure of S2 (reframe) or S4 (captions, translation, dubbing)
\* the file written by S3 is still at outputPath when it is recorded, and the
\* job does not end in 'error'
C9_EnhancementFailureNonFatal ==
  failedStage \in {"S2", "S4"}
    => /\ pc = "stat" => outputExists
       /\ pc \notin {"catch", "rejected"}
       /\ progress.status # "error"

\* C10: a connected listener is sent every event emitted after it attached,
\* it is closed by the terminal event, and no stream is closed before the job
\* is terminal
C10_ListenerStream ==
  /\ \A l \in Listeners :
       streams[l].state \in {"open", "ended"} => streams[l].missed = 0
  /\ (IsTerminal(progress.status) /\ pc \in AwaitPcs)
       => \A l \in Listeners : streams[l].state # "open"
  /\ \A l \in Listeners :
       streams[l].state = "ended" => IsTerminal(progress.status)

\* C11: a listener whose send fails is detached alone: it leaves job.listeners,
\* every other connected listener is still sent every event, and the failure
\* does not reach processJob (the job does not go to its catch because of it)
C11_ListenerFailureIsolated ==
  /\ \A l \in Listeners : streams[l].state = "broken" => ~InSeq(listeners, l)
  /\ \A l \in Listeners : streams[l].state = "open" => streams[l].missed = 0
  /\ failedStage = "send" => (pc \notin {"catch", "rejected"} /\ progress.status # "error")

\* The job object of the in-memory store, with the fields its constructor
\* gives it
Job ==
  [id |-> "job", progress |-> progress, listeners |-> listeners]

\* C12: every job carries a cancel flag, and a job whose flag was set does not
\* end in done: it ends in error with no output file of the clip in flight left
C12_CancelFlagStopsJob ==
  /\ "cancelFlag" \in DOMAIN Job
  /\ (Job.cancelFlag /\ pc \in {"finished", "rejected"})
       => (progress.status = "error" /\ ~outputExists)

\* C13: the full-video cache and the subtitle cache are both empty once
\* processJob has started a job, and again once the job is terminal
C13_CachesEmptyAtJobBounds ==
  /\ (pc = "loop" /\ clipIndex = 0) => (~fullVideoCache /\ ~subtitleCache)
  /\ pc \in {"finished", "rejected"} => (~fullVideoCache /\ ~subtitleCache)

\* ───────────────────── claims: scoring and time input ─────────────────────

SubScores(b) ==
  {b.peakIntensity, b.hookStrength, b.pacing, b.audioEnergy, b.positionBonus, b.durationFit}

\* C14: every sub-score and the overall score that scoreSegments returns is an
\* integer in 0..100, and two calls on equal arguments return equal results
C14_ScoresBoundedAndDeterministic ==
  /\ \A c \in 1..Len(viralityScores) : \A k \in 1..Len(viralityScores[c]) :
       /\ SubScores(viralityScores[c][k]) \subseteq 0..100
       /\ viralityScores[c][k].overall \in 0..100
  /\ Len(viralityScores) = 2 => viralityScores[1] = viralityScores[2]

\* a segment was scored twice, the cap of the pacing and the cap of the hook
\* strength both applied, the position bonus and the duration fit at their ends
C14_Witness ==
  /\ Len(viralityScores) = 2
  /\ Len(viralityScores[2]) = 1
  /\ pacingUncapped(scoreSegmentsIn[1], scoreHeatmap) > 100
  /\ viralityScores[2][1].pacing = 100
  /\ viralityScores[2][1].hookStrength = 100
  /\ viralityScores[2][1].positionBonus = 100
  /\ viralityScores[2][1].durationFit = 30

\* "h:mm:ss", "m:ss" or "N": one to three fields of digits, the minutes of
\* h:mm:ss and the seconds of both below 60
WellFormedTime(s) ==
  LET fields == split(s)
  IN /\ Len(fields) \in 1..3
     /\ \A k \in 1..Len(fields) : IsDigits(fields[k])
     /\ \A k \in 2..Len(fields) : DigitsValue(fields[k]) < 60

RECURSIVE DenotedSeconds(_)
DenotedSeconds(fields) ==
  IF fields = <<>> THEN 0
  ELSE 60 * DenotedSeconds(SubSeq(fields, 1, Len(fields) - 1))
         + DigitsValue(fields[Len(fields)])

\* C15: parseTimeInput returns the seconds a well-formed time denotes, and
\* null for every other string
C15_ParseTimeInput ==
  parsedTime # <<>> =>
    IF WellFormedTime(trim(timeInput))
      THEN parsedTime[1] = [isNull |-> FALSE, num |-> DenotedSeconds(split(trim(timeInput))), den |-> 1]
      ELSE parsedTime[1].isNull

\* ───────────────────── claims: detection scenarios ─────────────────────

IsWellSpacedPeaks == \E size \in BucketSizes : heatmap = WellSpacedPeaks(size)
IsFlatHeatmap == \E size \in BucketSizes : heatmap = FlatHeatmap(size)

\* C16: on the four-bump heatmap, at every bucket size, findPeakSegments
\* returns exactly four segments, the k-th containing the k-th bump, each at
\* least 15 s long, with gaps of at least 30 s
C16_FourBumpsFourSegments ==
  (phase # "request" /\ IsWellSpacedPeaks) =>
    /\ Len(detection.segments) = 4
    /\ \A k \in 1..Len(detection.segments) :
         /\ k <= Len(Bumps) =>
              /\ detection.segments[k].startS <= Bumps[k].startMs
              /\ detection.segments[k].endS >= Bumps[k].endMs
         /\ detection.segments[k].durationS >= 15 * 1000
    /\ GapsAtLeast(detection.segments, 30 * 1000)

\* C17: on the all-0.55 heatmap findPeakSegments returns topN segments
C17_FlatHeatmapTopN ==
  (phase # "request" /\ IsFlatHeatmap) =>
    /\ Len(detection.segments) = settings.topN
    /\ GapsAtLeast(detection.segments, settings.minGapS)

\* ───────────────────── claims: temporary files ─────────────────────

\* C18: once the job is terminal none of its temporary files is left in
\* TEMP_DIR, and the job never works on a temporary file of another job
C18_TempFilesJobScoped ==
  /\ pc \in {"finished", "rejected"} => \A f \in tempDir : f.job # "this"
  /\ \A f \in tempFiles \cup {filePath} : f.job = "this"

\* ───────────────────── claims: the two selection passes ─────────────────────

\* how many of the first i - 1 candidates the index sequence sel holds
SelectedBefore(sel, i) == Cardinality({k \in 1..Len(sel) : sel[k] < i})

\* candidate i is too close to a candidate that sel holds and that was visited
\* before it
ConflictsWithEarlier(cands, sel, i, gap) ==
  \E k \in 1..Len(sel) : sel[k] < i /\ GapBetween(cands[i], cands[sel[k]]) < gap

\* C19: the strict pass visits the candidates by descending score, ties in zone
\* time order, admits a candidate exactly when its gap to every candidate
\* selected before it is at least minGapS and fewer than topN were selected,
\* so that at most topN are selected, the first candidate is selected, and a
\* candidate is skipped only for a conflict with an earlier, selected
\* candidate (of greater or equal score) or because topN was reached
C19_StrictPass ==
  phase # "request" =>
    LET cands == detection.candidates
        sel == detection.strict
    IN /\ \A i, j \in 1..Len(cands) :
            i < j => \/ cands[i].score > cands[j].score
                     \/ /\ cands[i].score = cands[j].score
                        /\ cands[i].peakTimeS < cands[j].peakTimeS
       /\ \A k \in 2..Len(sel) : sel[k - 1] < sel[k]
       /\ \A i \in 1..Len(cands) :
            IsSelected(sel, i) <=>
              /\ SelectedBefore(sel, i) < settings.topN
              /\ ~ConflictsWithEarlier(cands, sel, i, settings.minGapS)
       /\ Len(sel) <= settings.topN
       /\ Len(sel) = detection.strictCount
       /\ (cands # <<>> /\ settings.topN >= 1) => IsSelected(sel, 1)

\* the strict pass skipped one candidate for a conflict and another one because
\* topN was reached, and two candidates have the same score
C19_Witness ==
  /\ phase # "request"
  /\ \E i \in 1..Len(detection.candidates) :
       /\ ~IsSelected(detection.strict, i)
       /\ SelectedBefore(detection.strict, i) < settings.topN
       /\ ConflictsWithEarlier(detection.candidates, detection.strict, i, settings.minGapS)
  /\ \E i, j \in 1..Len(detection.candidates) :
       i < j /\ detection.candidates[i].score = detection.candidates[j].score

\* C20: the relaxation pass runs exactly when the strict pass selected fewer
\* than topN and unselected candidates remain; it keeps the strict selections,
\* selects no candidate twice, admits a candidate only with a gap of at least
\* relaxedGap = max(minGapS / 2, 10) to everything selected before it, and
\* never selects more than topN
C20_RelaxationPass ==
  phase # "request" =>
    LET cands == detection.candidates
        sel == detection.selected
        n == Len(detection.strict)
    IN /\ detection.relaxed <=> (n < settings.topN /\ n < Len(cands))
       /\ ~detection.relaxed => sel = detection.strict
       /\ n <= Len(sel) /\ SubSeq(sel, 1, n) = detection.strict
       /\ \A k, m \in 1..Len(sel) : k # m => sel[k] # sel[m]
       /\ \A k \in (n + 1)..Len(sel) : \A m \in 1..(k - 1) :
            GapBetween(cands[sel[k]], cands[sel[m]]) >= StatedRelaxedGap
       /\ Len(sel) <= settings.topN
       /\ Len(detection.segments) = Len(sel)

\* the relaxation pass ran and admitted a candidate that the strict pass had
\* skipped
C20_Witness ==
  /\ phase # "request"
  /\ detection.relaxed
  /\ Len(detection.selected) > Len(detection.strict)
  /\ Len(detection.strict) >= 1

\* ───────────────────── claims: threshold, zones and sizing ─────────────────────

\* the threshold findPeakSegments ends its loop with on the request's input
FinalThreshold == AdaptiveThreshold(heatmap, Thr(settings.intensityThreshold, 0))

\* C21: the threshold finally used is never below 0.2, and the result is empty
\* exactly when no heatmap point reaches the final threshold
C21_ThresholdFloor ==
  (phase # "request" /\ heatmap # <<>>) =>
    /\ FinalThreshold.m > 200 \/ (FinalThreshold.m = 200 /\ FinalThreshold.e >= 0)
    /\ detection.segments = <<>> <=> hotMarkersAt(heatmap, FinalThreshold) = <<>>

\* the hot markers in time order and the zones findPeakSegments merges them into
HotMarkers ==
  LET markers == hotMarkersAt(heatmap, FinalThreshold)
  IN StableSort(markers, [i \in 1..Len(markers) |-> markers[i].startMs])
Zones == IF HotMarkers = <<>> THEN <<>> ELSE MergeZones(HotMarkers)

\* the positions in hot of the members of zone k: consecutive runs
FirstMember(zones, k) == 1 + SumSeq([j \in 1..(k - 1) |-> Len(zones[j].intensities)])
Members(zones, k) ==
  FirstMember(zones, k) .. (FirstMember(zones, k) + Len(zones[k].intensities) - 1)
\* the end of zone k as it runs before marker i is visited
RunningEnd(hot, zones, k, i) ==
  LET ends == {hot[j].endMs : j \in {n \in Members(zones, k) : n < i}}
  IN CHOOSE e \in ends : \A x \in ends : x <= e

\* zones is the merge of the sorted markers hot as the claim describes it
IsZoneMerge(hot, zones) ==
  /\ SumSeq([k \in 1..Len(zones) |-> Len(zones[k].intensities)]) = Len(hot)
  /\ \A k \in 1..Len(zones) :
       LET first == FirstMember(zones, k)
           members == Members(zones, k)
       IN /\ members # {}
          /\ \A i \in members :
               /\ zones[k].intensities[i - first + 1] = hot[i].intensity
               /\ hot[i].intensity <= zones[k].peakIntensity
               /\ hot[i].endMs <= zones[k].endMs
               /\ i > first => hot[i].startMs - RunningEnd(hot, zones, k, i) <= MergeGapMs
          /\ zones[k].startMs = hot[first].startMs
          /\ \E i \in members :
               /\ hot[i].intensity = zones[k].peakIntensity
               /\ hot[i].startMs = zones[k].peakTimeMs
               /\ \A j \in members : j < i => hot[j].intensity < zones[k].peakIntensity
          /\ k > 1 =>
               /\ zones[k].startMs - zones[k - 1].endMs > MergeGapMs
               /\ hot[first].startMs - RunningEnd(hot, zones, k - 1, first) > MergeGapMs

\* C22: the zones partition the hot markers, a marker at most 3000 ms after the
\* running zone end joins the zone, consecutive zones are more than 3000 ms apart,
\* the peak of a zone is its earliest maximum; two peaks at 100 s and 101 s give
\* one zone and one segment
C22_ZoneMerging ==
  (phase = "peaks" /\ HotMarkers # <<>>) =>
    LET hot == HotMarkers
        zones == MergeZones(hot)
    IN /\ IsZoneMerge(hot, zones)
       /\ heatmap = ClosePeaks(Null) => Len(zones) = 1 /\ Len(detection.segments) = 1

\* C22 witness: peaks were merged up to a gap of 3000 ms and split at 3001 ms,
\* and the zone of the merged pair has its maximum twice
C22_Witness ==
  /\ phase = "peaks"
  /\ heatmap = ClosePeaks(MergeGapMs + 1)
  /\ LET zones == Zones
     IN /\ Len(zones) = 2
        /\ Len(zones[1].intensities) = 2
        /\ zones[1].peakTimeMs = 100 * 1000
        /\ zones[2].startMs - zones[1].endMs = MergeGapMs + 1

\* the range of duration d around peak p in a video of duration v, as the claim
\* describes it: centred, or against the boundary that clips it
IsSizedAround(c, p, d, v) ==
  /\ c.durationS = d
  /\ c.endS - c.startS = d
  /\ 0 <= c.startS /\ c.endS <= v
  /\ c.startS <= p /\ p <= c.endS
  /\ IF p - d \div 2 >= 0 /\ p + d \div 2 <= v
     THEN c.startS = round1(p - d \div 2) /\ c.endS = round1(p + d \div 2)
     ELSE IF p - d \div 2 < 0 THEN c.startS = 0 ELSE c.endS = v

\* C23: a zone shorter than minDurationS gives a candidate of exactly
\* minDurationS inside the video that contains the peak, centred on it unless a
\* boundary clips it; likewise with maxDurationS for a zone longer than that
C23_CandidateSizing ==
  (phase = "peaks" /\ HotMarkers # <<>>) =>
    LET zones == Zones
    IN \A k \in 1..Len(zones) :
         LET p == zones[k].peakTimeMs
             d == zones[k].endMs - zones[k].startMs
             sized == {i \in 1..Len(detection.candidates) :
                          detection.candidates[i].peakTimeS = p}
         IN /\ sized # {}
            /\ (d < settings.minDurationS /\ videoDurationS >= settings.minDurationS
                  /\ 0 <= p /\ p <= videoDurationS) =>
                 \A i \in sized : IsSizedAround(detection.candidates[i], p,
                                                settings.minDurationS, videoDurationS)
            /\ (d > settings.maxDurationS /\ videoDurationS >= settings.maxDurationS
                  /\ 0 <= p /\ p <= videoDurationS) =>
                 \A i \in sized : IsSizedAround(detection.candidates[i], p,
                                                settings.maxDurationS, videoDurationS)

\* C23 witness: a short zone whose expansion the end of the video clips, so that
\* its start was shifted back, next to a short zone expanded inside the video
C23_Witness ==
  /\ phase = "peaks"
  /\ \E i \in 1..Len(detection.candidates) :
       LET c == detection.candidates[i]
       IN /\ c.peakTimeS + settings.minDurationS \div 2 > videoDurationS
          /\ c.endS = videoDurationS
          /\ c.durationS = settings.minDurationS
  /\ \E i \in 1..Len(detection.candidates) :
       LET c == detection.candidates[i]
       IN /\ c.peakTimeS - settings.minDurationS \div 2 > 0
          /\ c.peakTimeS + settings.minDurationS \div 2 < videoDurationS
          /\ c.durationS = settings.minDurationS

\* C23 witness of the trim: a zone longer than maxDurationS was cut down to it
C23_WitnessLong ==
  /\ phase = "peaks"
  /\ Len(Zones) = 1
  /\ Zones[1].endMs - Zones[1].startMs > settings.maxDurationS
  /\ detection.candidates[1].durationS = settings.maxDurationS

\* ───────────────────── claims: the start of an optimized segment ─────────────────────

\* the ends of the silences that end inside the start window of seg
SilenceEndsInWindow(seg, silences) ==
  {silences[i].endS : i \in {n \in 1..Len(silences) :
      /\ silences[n].endS >= Max(0, seg.startS - SearchWindowMs)
      /\ silences[n].endS <= seg.startS + SearchAfterMs}}

\* the heatmap has a point above 0.5 inside the start window of seg
HasHighEnergyPoint(seg, points) ==
  \E i \in 1..Len(points) :
    /\ points[i].startMs >= Max(0, seg.startS - SearchWindowMs)
    /\ points[i].startMs <= seg.startS + SearchAfterMs
    /\ points[i].intensity > HookMinIntensity

\* C24: with a silence ending in the start window the start is such an end and the
\* boundary a sentence_start; an energy_peak is chosen only without one; with
\* neither a silence nor a high-energy point the start stays the original
C24_SilenceBeforeEnergy ==
  boundaryOptimized # <<>> =>
    \A i \in 1..Len(boundarySegments) :
      LET seg == boundarySegments[i]
          opt == boundaryOptimized[1][i]
          ends == SilenceEndsInWindow(seg, boundarySilences)
      IN /\ ends # {} => /\ opt.boundaryType = "sentence_start"
                         /\ opt.optimizedStartS \in ends
         /\ opt.boundaryType = "energy_peak" => ends = {}
         /\ (ends = {} /\ ~HasHighEnergyPoint(seg, boundaryHeatmap)) =>
              /\ opt.boundaryType = "original"
              /\ opt.optimizedStartS = seg.startS

\* ───────────────────── claims: the order of a job's events ─────────────────────

Stages == {"downloading", "analyzing", "processing", "captioning"}
StageRank(status) ==
  CASE status = "downloading" -> 1
    [] status = "analyzing" -> 2
    [] status = "processing" -> 3
    [] status = "captioning" -> 4
\* the status of the last event of a clip that was handled to its end
FinalStage == IF needsSubs THEN "captioning" ELSE "processing"

\* C25: the events of a job go clip by clip, inside a clip from downloading to
\* analyzing to processing to captioning; analyzing needs smart_reframe and
\* captioning a caption preset or a translate mode; a clip starts after the final
\* stage of the clip before, and done follows the final stage of the last clip
C25_StagesInOrder ==
  [][progress' # progress =>
       /\ progress'.status \in Stages =>
            /\ progress.status \in Stages
            /\ \/ /\ progress'.currentClip = progress.currentClip
                  /\ progress.currentClip >= 1
                  /\ StageRank(progress'.status) >= StageRank(progress.status)
               \/ /\ progress'.currentClip = progress.currentClip + 1
                  /\ progress'.status = "downloading"
                  /\ progress.currentClip = 0 \/ progress.status = FinalStage
            /\ progress'.status = "analyzing" => cutRequest.cropMode = "smart_reframe"
            /\ progress'.status = "captioning" => needsSubs
       /\ progress'.status = "done" =>
            /\ progress.status = FinalStage
            /\ progress.currentClip = totalClips
            /\ clipIndex = totalClips]_vars

\* C25 witness: a job of two clips with reframing and captions has emitted done
C25_Witness ==
  /\ progress.status = "done"
  /\ totalClips = 2
  /\ cutRequest.cropMode = "smart_reframe"
  /\ needsSubs
  /\ Len(outputFiles) = 2

\* ───────────────────── claims: batches ─────────────────────

ResultRank(status) ==
  CASE status = "pending" -> 0
    [] status = "analyzing" -> 1
    [] status = "cutting" -> 2
    [] status \in {"done", "error"} -> 3

NoCutJobRuns == \A u \in 1..Len(cutJobs) : cutJobs[u].status # "downloading"

\* C26: at most one result is analyzing or cutting, a result's status only moves
\* forward from pending over analyzing and cutting to done or error and stays
\* there, the batch is done only when no URL is left unfinished, and the batch
\* becomes done once every cut job has ended
C26_BatchInSequence ==
  /\ [](Cardinality({u \in 1..Len(results) :
                       results[u].status \in {"analyzing", "cutting"}}) <= 1)
  /\ [](batchStatus = "done" =>
          \A u \in 1..Len(results) : results[u].status \in {"done", "error"})
  /\ [][\A u \in 1..Len(results) :
          /\ ResultRank(results'[u].status) >= ResultRank(results[u].status)
          /\ results[u].status \in {"done", "error"} => results'[u] = results[u]]_vars
  /\ (<>[]NoCutJobRuns) => <>(batchStatus = "done")

\* C26 witness: a batch of three URLs is done, the first failed and a later one
\* was cut by a job
C26_Witness ==
  /\ batchStatus = "done"
  /\ Len(results) = MaxUrls
  /\ results[1].status = "error"
  /\ \E u \in 2..Len(results) : results[u].status = "done" /\ cutJobs[u].status = "done"

\* C29: a result for which a cut job ran is done only if the job ended done; when
\* the job ended in error the result is error with the error recorded
C29_ErrorJobIsErrorResult ==
  \A u \in 1..Len(results) :
    /\ (results[u].status = "done" /\ cutJobs[u].status # "none") =>
          cutJobs[u].status = "done"
    /\ (cutJobs[u].status = "error" /\ urlIndex >= u) =>
          results[u].status = "error" /\ results[u].error # ""

\* ───────────────────── claims: the subtitle cache ─────────────────────

\* C27: within one job the full-video subtitle download is attempted at most
\* once, also after a download that returned nothing or an empty slice
C27_SubtitlesDownloadedOnce == downloadAttempts <= 1

\* ───────────────────── claims: concurrent jobs ─────────────────────

\* C28: no clip of a job is cut from the full video of the other job's URL, and
\* no step deletes the full-video file a job is cutting from or takes from the
\* cache the file a running job has fetched for itself
C28_FallbackIsolated ==
  /\ [](\A j \in CutJobs : cutSources[j] \subseteq {OwnSegment, j})
  /\ [][\A j \in CutJobs :
          /\ (jobPcs[j] = "await_cut" /\ jobSources[j] \in fullVideos /\ jobPcs'[j] = "await_cut")
               => jobSources[j] \in fullVideos'
          /\ (sharedFullVideoCache = j /\ jobPcs[j] = jobPcs'[j] /\ jobPcs[j] # "finished")
               => sharedFullVideoCache' = j]_vars

\* ───────────────────── claims: the frames analysed and the frames cut ─────────────────────

\* C30: the reframe analysis and the transcode start at the same position of the
\* fetched file: at startS - max(0, startS - 3) after a partial download, at
\* startS after the fallback to the full video
C30_AnalysisReadsCutRange ==
  (seekTime # Null /\ analysisStartS # Null) =>
    /\ analysisStartS = seekTime
    /\ fetched = "partial" => seekTime = clipStartS - Max(0, clipStartS - SegmentBufferMs)
    /\ fetched = "full" => seekTime = clipStartS

====
